---------------------------- MODULE Spec2Model ----------------------------
(***************************************************************************)
(* Model of tools/migration/recalculate-compare.py: the settlement         *)
(* validator (timestamp normalisation, rate and subscription resolution,   *)
(* product classification and the three validation levels), and of         *)
(* tools/migration/fetch-spot-prices.py: the batch fetch of spot prices    *)
(* into the spot cache file.                                               *)
(*                                                                         *)
(* Text is a sequence of one-character strings, compared by code point as  *)
(* Python compares str.  Money and energy are integers: energy in Wh,      *)
(* rates in mDKK/kWh, amounts in mDKK; a product of energy and rate is in  *)
(* micro-DKK.                                                              *)
(***************************************************************************)
EXTENDS Integers, Sequences, FiniteSets, TLC

VARIABLES
    cache,      \* data = json.load(args.cache), with the spot cache
    argIndex,   \* args.index (None when absent)
    i,          \* position of the validation loop in data["settlements"]
    lookups,    \* spot_lookup, obs_lookup, products, prod_periods, sub_prices
    results,    \* the list of result records r
    printed,    \* the status lines printed so far: settlement index and icon
    summary,    \* the figures of the printed summary (None before it)
    pc,         \* where the program is
    call,       \* the helper call being made: function name and arguments
    ret,        \* what the helper call returned
    \* fetch-spot-prices.py (its cache and position are cache and pc above)
    file,           \* the cache file on disk (None while it does not exist)
    remote,         \* the records the data service holds for the date range
    existing_hours, \* the hours already in the cache
    offset,         \* the offset of the next batch request
    new_count,      \* the prices added by this run
    total,          \* data["total"] of the first batch received (None before)
    requests        \* the batch requests issued so far: offset and outcome

\* The state of the spot price fetch.
fetchVars == <<file, remote, existing_hours, offset, new_count, total, requests>>

vars == <<cache, argIndex, lookups, i, results, printed, summary, pc, call, ret, fetchVars>>

\* Python's None; also what a missing or empty optional string field reads as.
None == <<>>

\* The validator is running: the spot price fetch is not.
NotFetching ==
    /\ file = None
    /\ remote = <<>>
    /\ existing_hours = {}
    /\ offset = 0
    /\ new_count = 0
    /\ total = None
    /\ requests = {}

---------------------------------------------------------------------------
(* Text: code points, comparison, str.replace                              *)

Ord(c) ==
    CASE c = "+" -> 43 [] c = "-" -> 45
      [] c = "0" -> 48 [] c = "1" -> 49 [] c = "2" -> 50 [] c = "3" -> 51
      [] c = "4" -> 52 [] c = "5" -> 53 [] c = "6" -> 54 [] c = "7" -> 55
      [] c = "8" -> 56 [] c = "9" -> 57 [] c = ":" -> 58
      [] c = "T" -> 84 [] c = "Z" -> 90

RECURSIVE StrLtFrom(_, _, _)
\* a[k..] < b[k..], the texts agreeing before position k.
StrLtFrom(a, b, k) ==
    IF k > Len(b) THEN FALSE
    ELSE IF k > Len(a) THEN TRUE
    ELSE IF a[k] = b[k] THEN StrLtFrom(a, b, k + 1)
    ELSE Ord(a[k]) < Ord(b[k])

\* a < b on Python str: lexicographic by code point, a proper prefix is less.
StrLt(a, b) == StrLtFrom(a, b, 1)

StrLe(a, b) == a = b \/ StrLt(a, b)

\* old occurs in s at position k.
OccursAt(s, k, old) ==
    /\ s[k] = old[1]
    /\ k + Len(old) - 1 <= Len(s)
    /\ \A j \in 2..Len(old) : s[k + j - 1] = old[j]

RECURSIVE ReplaceFrom(_, _, _, _)
\* s[k..] with every non-overlapping occurrence of old, left to right, made new.
ReplaceFrom(s, k, old, new) ==
    IF k > Len(s) THEN <<>>
    ELSE IF OccursAt(s, k, old)
         THEN new \o ReplaceFrom(s, k + Len(old), old, new)
         ELSE <<s[k]>> \o ReplaceFrom(s, k + 1, old, new)

\* s.replace(old, new)
Replace(s, old, new) == ReplaceFrom(s, 1, old, new)

PlusZero == <<"+", "0", "0", ":", "0", "0">>
Zulu == <<"Z">>

\* A normaliser that strips only the "Z" designator.
normZOnly(ts) == Replace(ts, Zulu, <<>>)

\* norm(ts): ts.replace("+00:00", "").replace("Z", "")
norm(ts) == Replace(Replace(ts, PlusZero, <<>>), Zulu, <<>>)

---------------------------------------------------------------------------
(* Calendar of 2024 and datetime.fromisoformat                             *)

Digits == <<"0", "1", "2", "3", "4", "5", "6", "7", "8", "9">>

DaysInMonth == <<31, 29, 31, 30, 31, 30, 31, 31, 30, 31, 30, 31>>

RECURSIVE DaysBefore(_)
DaysBefore(m) == IF m <= 1 THEN 0 ELSE DaysBefore(m - 1) + DaysInMonth[m - 1]

Num2(s, k) == (Ord(s[k]) - 48) * 10 + (Ord(s[k + 1]) - 48)

\* datetime.fromisoformat(s) for "YYYY-MM-DD[THH:MM:SS[+HH:MM]]", as the
\* number of hours from 2024-01-01T00:00 UTC to the instant it denotes.
fromisoformat(s) ==
    LET month == Num2(s, 6)
        day   == Num2(s, 9)
        hour  == IF Len(s) >= 13 THEN Num2(s, 12) ELSE 0
        off   == IF Len(s) >= 25
                 THEN (IF s[20] = "-" THEN -1 ELSE 1) * Num2(s, 21)
                 ELSE 0
    IN  (DaysBefore(month) + day - 1) * 24 + hour - off

IsDigit(c) == c \in {Digits[k] : k \in 1..10}

\* The texts datetime.fromisoformat accepts among those of the cache files:
\* "YYYY-MM-DD", "YYYY-MM-DDTHH:MM:SS" and "YYYY-MM-DDTHH:MM:SS+HH:MM" naming
\* a day of the calendar and an hour of the day.  Any other text raises
\* ValueError.
IsIsoFormat(s) ==
    /\ Len(s) \in {10, 19, 25}
    /\ \A k \in {1, 2, 3, 4, 6, 7, 9, 10} : IsDigit(s[k])
    /\ s[5] = "-" /\ s[8] = "-"
    /\ Num2(s, 6) \in 1..12
    /\ Num2(s, 9) >= 1
    /\ Num2(s, 9) <= DaysInMonth[Num2(s, 6)]
    /\ Len(s) >= 19 =>
          /\ s[11] = "T" /\ s[14] = ":" /\ s[17] = ":"
          /\ \A k \in {12, 13, 15, 16, 18, 19} : IsDigit(s[k])
          /\ Num2(s, 12) <= 23 /\ Num2(s, 15) <= 59 /\ Num2(s, 18) <= 59
    /\ Len(s) = 25 =>
          /\ s[20] \in {"+", "-"} /\ s[23] = ":"
          /\ \A k \in {21, 22, 24, 25} : IsDigit(s[k])

\* parse_ts(ts) raises ValueError
ParseRaises(ts) == ~IsIsoFormat(Replace(ts, Zulu, PlusZero))

\* parse_ts(ts)
parse_ts(ts) == fromisoformat(Replace(ts, Zulu, PlusZero))

---------------------------------------------------------------------------
(* Timestamps as the cache files write them.  An instant is a number of    *)
(* hours from 2024-01-01T00:00 UTC.                                        *)

D2(n) == <<Digits[(n \div 10) + 1], Digits[(n % 10) + 1]>>

RECURSIVE MonthOfDay(_, _)
\* The month holding day d (0-based within the year), scanning from month m.
MonthOfDay(d, m) ==
    IF d < DaysBefore(m) + DaysInMonth[m] THEN m ELSE MonthOfDay(d, m + 1)

IsoDate(t) ==
    LET d == t \div 24
        m == MonthOfDay(d, 1)
    IN  <<"2", "0", "2", "4", "-">> \o D2(m) \o <<"-">> \o D2(d - DaysBefore(m) + 1)

IsoTime(t) == <<"T">> \o D2(t % 24) \o <<":", "0", "0", ":", "0", "0">>

\* The instant t written in one of the forms:
\*   "date"   2024-01-01                  (midnight only)
\*   "naive"  2024-01-01T00:00:00
\*   "Z"      2024-01-01T00:00:00Z
\*   "+00:00" 2024-01-01T00:00:00+00:00
\*   "+01:00" 2024-01-01T01:00:00+01:00   (local time one hour ahead of UTC)
Iso(t, form) ==
    CASE form = "date"   -> IsoDate(t)
      [] form = "naive"  -> IsoDate(t) \o IsoTime(t)
      [] form = "Z"      -> IsoDate(t) \o IsoTime(t) \o Zulu
      [] form = "+00:00" -> IsoDate(t) \o IsoTime(t) \o PlusZero
      [] form = "+01:00" -> IsoDate(t + 1) \o IsoTime(t + 1)
                               \o <<"+", "0", "1", ":", "0", "0">>

---------------------------------------------------------------------------
(* sorted(): a stable sort by a key                                        *)

\* Python's order on the sort keys used here: a str, or a (str, number) tuple
\* written <<str, number>>; a bare str key is written <<str, 0>>.
KeyLt(a, b) == StrLt(a[1], b[1]) \/ (a[1] = b[1] /\ a[2] < b[2])

RECURSIVE InsertIdx(_, _, _)
\* Insert index x behind every index of the sorted ix whose key is not greater.
InsertIdx(ix, x, keys) ==
    IF ix = <<>> THEN <<x>>
    ELSE IF KeyLt(keys[x], keys[ix[Len(ix)]])
         THEN Append(InsertIdx(SubSeq(ix, 1, Len(ix) - 1), x, keys), ix[Len(ix)])
         ELSE Append(ix, x)

RECURSIVE SortIdx(_, _)
\* The indexes 1..n of keys in stable ascending key order.
SortIdx(keys, n) ==
    IF n = 0 THEN <<>> ELSE InsertIdx(SortIdx(keys, n - 1), n, keys)

\* sorted(s, key=...) where keys[k] is the key of s[k].
SortedByKey(s, keys) ==
    LET ix == SortIdx(keys, Len(s)) IN [k \in 1..Len(s) |-> s[ix[k]]]

Reversed(s) == [k \in 1..Len(s) |-> s[Len(s) + 1 - k]]

---------------------------------------------------------------------------
(* margin_rate_at                                                          *)

RECURSIVE RateScanClosedEnd(_, _, _)
\* The loop with ps <= end for ps < end: a ranged entry still applies at its end.
RateScanClosedEnd(rs, ps, rate) ==
    IF rs = <<>> THEN rate
    ELSE LET r == Head(rs)
             applies ==
                 IF r.endDate # None
                 THEN StrLe(norm(r.startDate), ps) /\ StrLe(ps, norm(r.endDate))
                 ELSE StrLt(norm(r.startDate), ps)
         IN  RateScanClosedEnd(Tail(rs), ps, IF applies THEN r.rateDkkPerKwh ELSE rate)

RECURSIVE RateScan(_, _, _)
\* The for loop of margin_rate_at over the sorted entries, rate so far.
RateScan(rs, ps, rate) ==
    IF rs = <<>> THEN rate
    ELSE LET r == Head(rs)
             applies ==
                 IF r.endDate # None
                 THEN StrLe(norm(r.startDate), ps) /\ StrLt(ps, norm(r.endDate))
                 ELSE StrLt(norm(r.startDate), ps)
         IN  RateScan(Tail(rs), ps, IF applies THEN r.rateDkkPerKwh ELSE rate)

\* margin_rate_at without the sort: the entries are scanned in input order.
margin_rate_at_unsorted(product, period_start) ==
    RateScan(product.rates, norm(period_start), 0)

margin_rate_at(product, period_start) ==
    RateScan(SortedByKey(product.rates,
                         [k \in 1..Len(product.rates) |-> <<product.rates[k].startDate, 0>>]),
             norm(period_start), 0)

---------------------------------------------------------------------------
(* The lookups main() builds before validating                             *)

\* An optional number or record: None, or the value wrapped in a 1-tuple.
Some(v) == <<v>>

Max(S) == CHOOSE x \in S : \A y \in S : y <= x

\* A dict filled by d[keys[j]] = vals[j] for j = 1, 2, ...: the last write of a
\* key stays.
DictFrom(keys, vals) ==
    [k \in {keys[j] : j \in 1..Len(keys)} |->
        vals[Max({j \in 1..Len(keys) : keys[j] = k})]]

\* d.get(k, default)
Get(d, k, default) == IF k \in DOMAIN d THEN d[k] ELSE default

HasSpotPrice(p) == p.spotPriceDkk # None

\* The price divided by 100 where it is to be divided by 1000.
SpotPerKwhByHundred(spotPriceDkk) == (spotPriceDkk * 1000) \div 100

\* p["spotPriceDkk"] / 1000.0: DKK per MWh to DKK per kWh, kept in mDKK/kWh.
SpotPerKwh(spotPriceDkk) == (spotPriceDkk * 1000) \div 1000

\* spot_lookup: normalized timestamp -> price per kWh, null prices left out.
BuildSpotLookup(prices) ==
    LET ps == SelectSeq(prices, HasSpotPrice)
    IN  DictFrom([j \in 1..Len(ps) |-> norm(ps[j].hourUtc)],
                 [j \in 1..Len(ps) |-> SpotPerKwh(ps[j].spotPriceDkk[1])])

\* obs_lookup: normalized timestamp -> kWh
BuildObsLookup(observations) ==
    DictFrom([j \in 1..Len(observations) |-> norm(observations[j].timestamp)],
             [j \in 1..Len(observations) |-> observations[j].kwh])

\* products = {p["name"]: p for p in data["products"]}
BuildProducts(products) ==
    DictFrom([j \in 1..Len(products) |-> products[j].name], products)

\* prod_periods = sorted(mp["productPeriods"], key=lambda pp: pp["start"])
BuildProdPeriods(productPeriods) ==
    SortedByKey(productPeriods,
                [j \in 1..Len(productPeriods) |-> <<productPeriods[j].start, 0>>])

addon_names ==
    {"Grøn strøm",
     "Leje af plads Anrenne/Mast/Koncent. El",
     "Refusion af omk. for el-forbrug (el)",
     "ØgetBal.geb.udenf-for"}

IsAbonnement(p) == p.type = "Abonnement"

\* sorted([(norm(pt["timestamp"]), pt["price"]) for pt in p["points"]])
SortedPoints(points) ==
    LET pts == [j \in 1..Len(points) |-> <<norm(points[j].timestamp), points[j].price>>]
    IN  SortedByKey(pts, pts)

\* sub_prices: chargeId -> sorted list of (norm_ts, monthly_price)
BuildSubPrices(prices) ==
    LET ab == SelectSeq(prices, IsAbonnement)
    IN  DictFrom([j \in 1..Len(ab) |-> ab[j].chargeId],
                 [j \in 1..Len(ab) |-> SortedPoints(ab[j].points)])

BuildLookups(data) ==
    [spot_lookup  |-> BuildSpotLookup(data.spot),
     obs_lookup   |-> BuildObsLookup(data.observations),
     products     |-> BuildProducts(data.products),
     prod_periods |-> BuildProdPeriods(data.productPeriods),
     sub_prices   |-> BuildSubPrices(data.prices)]

---------------------------------------------------------------------------
(* sub_price_at                                                            *)

RECURSIVE SubScanStrict(_, _, _)
\* The loop with t < ps for t <= ps: a point at the reference instant is left out.
SubScanStrict(pts, ps, val) ==
    IF pts = <<>> THEN val
    ELSE IF StrLt(Head(pts)[1], ps)
         THEN SubScanStrict(Tail(pts), ps, Head(pts)[2])
         ELSE val

RECURSIVE SubScan(_, _, _)
\* The for loop of sub_price_at: stops at the first point later than ps.
SubScan(pts, ps, val) ==
    IF pts = <<>> THEN val
    ELSE IF StrLe(Head(pts)[1], ps)
         THEN SubScan(Tail(pts), ps, Head(pts)[2])
         ELSE val

sub_price_at(sub_prices, charge_id, period_start) ==
    SubScan(Get(sub_prices, charge_id, <<>>), norm(period_start), 0)

---------------------------------------------------------------------------
(* find_primary_product, find_addons                                       *)

\* norm(pp.get("end") or "2099")
PeriodEnd(pp) == norm(IF pp.end # None THEN pp.end ELSE <<"2", "0", "9", "9">>)

\* s <= ps < e
ActiveAt(pp, ps) == StrLe(norm(pp.start), ps) /\ StrLt(ps, PeriodEnd(pp))

RECURSIVE PrimaryScanFallback(_, _, _)
\* The loop going on to an earlier period when the product named is unknown.
PrimaryScanFallback(pps, ps, products) ==
    IF pps = <<>> THEN None
    ELSE IF /\ ActiveAt(Head(pps), ps)
            /\ Head(pps).productName \notin addon_names
            /\ Get(products, Head(pps).productName, None) # None
         THEN Get(products, Head(pps).productName, None)
         ELSE PrimaryScanFallback(Tail(pps), ps, products)

RECURSIVE PrimaryScan(_, _, _)
\* The for loop of find_primary_product over reversed(prod_periods).
PrimaryScan(pps, ps, products) ==
    IF pps = <<>> THEN None
    ELSE IF ActiveAt(Head(pps), ps) /\ Head(pps).productName \notin addon_names
         THEN Get(products, Head(pps).productName, None)
         ELSE PrimaryScan(Tail(pps), ps, products)

\* products.get(name) yields the product wrapped, or None.
WrapProducts(products) == [n \in DOMAIN products |-> Some(products[n])]

\* find_primary_product scanning forward: the earliest start wins.
find_primary_product_forward(lk, period_start) ==
    PrimaryScan(lk.prod_periods, norm(period_start), WrapProducts(lk.products))

find_primary_product(lk, period_start) ==
    PrimaryScan(Reversed(lk.prod_periods), norm(period_start), WrapProducts(lk.products))

RECURSIVE AddonScan(_, _, _)
\* The for loop of find_addons over prod_periods.
AddonScan(pps, ps, products) ==
    IF pps = <<>> THEN <<>>
    ELSE LET pp == Head(pps)
             rest == AddonScan(Tail(pps), ps, products)
         IN  IF /\ ActiveAt(pp, ps)
                /\ pp.productName \in addon_names
                /\ pp.productName \in DOMAIN products
             THEN <<products[pp.productName]>> \o rest
             ELSE rest

\* find_addons without the addon-name test.
find_addons_any_name(lk, period_start) ==
    LET ps == norm(period_start)
        keep(pp) == ActiveAt(pp, ps) /\ pp.productName \in DOMAIN lk.products
        pps == SelectSeq(lk.prod_periods, keep)
    IN  [j \in 1..Len(pps) |-> lk.products[pps[j].productName]]

find_addons(lk, period_start) ==
    AddonScan(lk.prod_periods, norm(period_start), lk.products)

---------------------------------------------------------------------------
(* The body of the validation loop, for one settlement s                   *)

Abs(x) == IF x < 0 THEN -x ELSE x

RECURSIVE SumSeq(_)
\* sum(...) over a list of numbers
SumSeq(xs) == IF xs = <<>> THEN 0 ELSE Head(xs) + SumSeq(Tail(xs))

RECURSIVE SumDict(_, _)
\* sum(d.values()), over the keys still to add
SumDict(d, keys) ==
    IF keys = {} THEN 0
    ELSE LET k == CHOOSE k \in keys : TRUE
         IN  d[k] + SumDict(d, keys \ {k})

\* A charge identifier is a text in pieces: <<"PRODUCT:", name>> for
\* "PRODUCT:<name>", <<id>> for any other identifier.
ProductKey(name) == <<"PRODUCT:", name>>

\* cid.startswith("PRODUCT:")
IsProductCharge(cid) == cid[1] = "PRODUCT:"

\* t.get("hourlyDetail"): truthy when the line has a non-empty detail list
HasHourlyDetail(t) == t.hourlyDetail # <<>>

\* period_obs = {t: k for t, k in obs_lookup.items() if ps <= t < pe}
PeriodObs(obs_lookup, ps, pe) ==
    [t \in {t \in DOMAIN obs_lookup : StrLe(ps, t) /\ StrLt(t, pe)} |-> obs_lookup[t]]

\* Tolerances of the checks, in mDKK, Wh and micro-DKK.
ConsistencyTol == 10
ObsTol == 5
MaxObsErrors == 3
ObsMismatchAllowed == 2
MarginTol == 1000000
AddonTol == 500000
SubMinAmount == 10

\* Level 1 with consistency_errors not emptied between settlements: the
\* records of the settlement validated before stay in the list.
RECURSIVE Level1Carried(_)
Level1Carried(lines) ==
    IF lines = <<>>
    THEN IF results = <<>> THEN <<>> ELSE results[Len(results)].consistency_errors
    ELSE LET t == Head(lines)
             hd_sum == SumSeq([k \in 1..Len(t.hourlyDetail) |-> t.hourlyDetail[k].amountDkk])
             diff == Abs(t.amountDkk - hd_sum)
         IN  IF HasHourlyDetail(t) /\ diff > ConsistencyTol
             THEN <<[cid |-> t.partyChargeTypeId, total |-> t.amountDkk,
                     hd_sum |-> hd_sum, diff |-> diff]>> \o Level1Carried(Tail(lines))
             ELSE Level1Carried(Tail(lines))

\* Level 1 with a difference of exactly 0.01 taken as an error.
RECURSIVE Level1Inclusive(_)
Level1Inclusive(lines) ==
    IF lines = <<>> THEN <<>>
    ELSE LET t == Head(lines)
             hd_sum == SumSeq([k \in 1..Len(t.hourlyDetail) |-> t.hourlyDetail[k].amountDkk])
             diff == Abs(t.amountDkk - hd_sum)
         IN  IF HasHourlyDetail(t) /\ diff >= ConsistencyTol
             THEN <<[cid |-> t.partyChargeTypeId, total |-> t.amountDkk,
                     hd_sum |-> hd_sum, diff |-> diff]>> \o Level1Inclusive(Tail(lines))
             ELSE Level1Inclusive(Tail(lines))

\* Level 1: one error record for every line whose hourly amounts do not add up.
RECURSIVE Level1(_)
Level1(lines) ==
    IF lines = <<>> THEN <<>>
    ELSE LET t == Head(lines)
             hd_sum == SumSeq([k \in 1..Len(t.hourlyDetail) |-> t.hourlyDetail[k].amountDkk])
             diff == Abs(t.amountDkk - hd_sum)
         IN  IF HasHourlyDetail(t) /\ diff > ConsistencyTol
             THEN <<[cid |-> t.partyChargeTypeId, total |-> t.amountDkk,
                     hd_sum |-> hd_sum, diff |-> diff]>> \o Level1(Tail(lines))
             ELSE Level1(Tail(lines))

\* dh_total_ref / product_total_ref: the amounts of the lines of one kind.
TotalRef(lines, product) ==
    SumSeq([k \in 1..Len(lines) |->
              IF IsProductCharge(lines[k].partyChargeTypeId) = product
              THEN lines[k].amountDkk ELSE 0])

NoObsCounts == [matched |-> 0, mismatched |-> 0, missing |-> 0, errors |-> <<>>]

RECURSIVE MatchDetailInclusive(_, _, _)
\* The loop with a difference of exactly 0.005 taken as a match.
MatchDetailInclusive(hd, period_obs, c) ==
    IF hd = <<>> THEN c
    ELSE LET h == Head(hd)
             hts == norm(h.timestamp)
         IN  MatchDetailInclusive(Tail(hd), period_obs,
               IF hts \in DOMAIN period_obs
               THEN IF Abs(h.kwh - period_obs[hts]) <= ObsTol
                    THEN [c EXCEPT !.matched = @ + 1]
                    ELSE [c EXCEPT !.mismatched = @ + 1,
                                   !.errors = IF Len(@) < MaxObsErrors
                                              THEN Append(@, [hts |-> hts, hd |-> h.kwh,
                                                              obs |-> period_obs[hts]])
                                              ELSE @]
               ELSE [c EXCEPT !.missing = @ + 1])

RECURSIVE MatchDetail(_, _, _)
\* The loop over one line's hourlyDetail, c the counts so far.
MatchDetail(hd, period_obs, c) ==
    IF hd = <<>> THEN c
    ELSE LET h == Head(hd)
             hts == norm(h.timestamp)
         IN  MatchDetail(Tail(hd), period_obs,
               IF hts \in DOMAIN period_obs
               THEN IF Abs(h.kwh - period_obs[hts]) < ObsTol
                    THEN [c EXCEPT !.matched = @ + 1]
                    ELSE [c EXCEPT !.mismatched = @ + 1,
                                   !.errors = IF Len(@) < MaxObsErrors
                                              THEN Append(@, [hts |-> hts, hd |-> h.kwh,
                                                              obs |-> period_obs[hts]])
                                              ELSE @]
               ELSE [c EXCEPT !.missing = @ + 1])

RECURSIVE FirstLineWithDetail(_)
\* The first line with hourlyDetail, subscription or not.
FirstLineWithDetail(lines) ==
    IF lines = <<>> THEN <<>>
    ELSE IF HasHourlyDetail(Head(lines)) THEN <<Head(lines)>>
         ELSE FirstLineWithDetail(Tail(lines))

RECURSIVE FirstDetailLine(_)
\* The first line with hourlyDetail that is no subscription, <<>> without one.
FirstDetailLine(lines) ==
    IF lines = <<>> THEN <<>>
    ELSE IF HasHourlyDetail(Head(lines)) /\ ~Head(lines).isSubscription
         THEN <<Head(lines)>>
         ELSE FirstDetailLine(Tail(lines))

\* Level 2 entered whether or not the period has observations.
Level2Unguarded(lines, period_obs, has_obs) ==
    LET t == FirstDetailLine(lines)
    IN  IF t # <<>> THEN MatchDetail(t[1].hourlyDetail, period_obs, NoObsCounts)
        ELSE NoObsCounts

\* Level 2: the hourly kWh of one line against the observations.
Level2(lines, period_obs, has_obs) ==
    LET t == FirstDetailLine(lines)
    IN  IF has_obs /\ t # <<>>
        THEN MatchDetail(t[1].hourlyDetail, period_obs, NoObsCounts)
        ELSE NoObsCounts

\* 3a with the hours without a price left uncounted.
SpotMissingUncounted(period_obs, spot_lookup, has_obs, model) ==
    IF has_obs /\ model = "SpotAddon"
    THEN LET priced == {ts \in DOMAIN period_obs : ts \in DOMAIN spot_lookup}
         IN  [recalc_spot |-> Some(SumDict([ts \in priced |-> period_obs[ts] * spot_lookup[ts]],
                                           priced)),
              spot_missing_hours |-> 0]
    ELSE [recalc_spot |-> None, spot_missing_hours |-> 0]

\* 3a: spot cost over the observed hours, hours without a price counted.
Spot(period_obs, spot_lookup, has_obs, model) ==
    IF has_obs /\ model = "SpotAddon"
    THEN LET priced == {ts \in DOMAIN period_obs : ts \in DOMAIN spot_lookup}
         IN  [recalc_spot |-> Some(SumDict([ts \in priced |-> period_obs[ts] * spot_lookup[ts]],
                                           priced)),
              spot_missing_hours |-> Cardinality(DOMAIN period_obs \ priced)]
    ELSE [recalc_spot |-> None, spot_missing_hours |-> 0]

\* The energy the margin and addon amounts are computed on.
EnergyBase(period_obs, has_obs, total_kwh) ==
    IF has_obs THEN SumDict(period_obs, DOMAIN period_obs) ELSE total_kwh

\* 3b: margin of the primary product, None without one (micro-DKK).
Margin(prod, ps_raw, period_obs, has_obs, total_kwh) ==
    IF prod # None
    THEN Some(EnergyBase(period_obs, has_obs, total_kwh) * margin_rate_at(prod[1], ps_raw))
    ELSE None

RECURSIVE RefLine(_, _)
\* next((t for t in lines if t["partyChargeTypeId"] == product_key), None)
RefLine(lines, product_key) ==
    IF lines = <<>> THEN None
    ELSE IF Head(lines).partyChargeTypeId = product_key THEN Some(Head(lines))
    ELSE RefLine(Tail(lines), product_key)

RECURSIVE AddonDiffsInclusive(_, _, _, _)
\* 3c with a delta of exactly 0.50 already flagged.
AddonDiffsInclusive(addons, lines, ps_raw, energy) ==
    IF addons = <<>> THEN <<>>
    ELSE LET addon == Head(addons)
             ref_line == RefLine(lines, ProductKey(addon.name))
             calc_amt == energy * margin_rate_at(addon, ps_raw)
             d == calc_amt - ref_line[1].amountDkk * 1000
             rest == AddonDiffsInclusive(Tail(addons), lines, ps_raw, energy)
         IN  IF ref_line # None /\ Abs(d) >= AddonTol
             THEN <<[name |-> addon.name, calc |-> calc_amt,
                     ref |-> ref_line[1].amountDkk, d |-> d]>> \o rest
             ELSE rest

RECURSIVE AddonDiffs(_, _, _, _)
\* 3c: one record for every addon whose amount is off by more than 0.50.
AddonDiffs(addons, lines, ps_raw, energy) ==
    IF addons = <<>> THEN <<>>
    ELSE LET addon == Head(addons)
             ref_line == RefLine(lines, ProductKey(addon.name))
             calc_amt == energy * margin_rate_at(addon, ps_raw)
             d == calc_amt - ref_line[1].amountDkk * 1000
             rest == AddonDiffs(Tail(addons), lines, ps_raw, energy)
         IN  IF ref_line # None /\ Abs(d) > AddonTol
             THEN <<[name |-> addon.name, calc |-> calc_amt,
                     ref |-> ref_line[1].amountDkk, d |-> d]>> \o rest
             ELSE rest

RECURSIVE SubDiffs(_, _, _, _)
\* 3d: one record for every subscription line of a distribution charge whose
\* amount is within 15% neither of the monthly price nor of it times days/30.
\* hours is the length of the period; 0.15 is 3/20 and days/30 is hours/720.
SubDiffs(lines, sub_prices, ps_raw, hours) ==
    IF lines = <<>> THEN <<>>
    ELSE LET t == Head(lines)
             monthly_rate == sub_price_at(sub_prices, t.partyChargeTypeId[1], ps_raw)
             ref_amt == t.amountDkk
             rest == SubDiffs(Tail(lines), sub_prices, ps_raw, hours)
         IN  IF /\ t.isSubscription
                /\ ~IsProductCharge(t.partyChargeTypeId)
                /\ monthly_rate > 0
                /\ Abs(ref_amt) > SubMinAmount
                /\ Abs(ref_amt - monthly_rate) * 20 > 3 * monthly_rate
                /\ Abs(ref_amt * 720 - hours * monthly_rate) * 20 > 3 * 720 * monthly_rate
             THEN <<[cid |-> t.partyChargeTypeId, amt |-> ref_amt,
                     monthly |-> monthly_rate, hours |-> hours]>> \o rest
             ELSE rest

\* The issue list with a margin delta of exactly 1.0 already an issue.
IssuesMarginInclusive(consistency_ok, obs_mismatched, margin_diff, addon_diffs, sub_diffs) ==
    (IF ~consistency_ok THEN <<"consistency">> ELSE <<>>)
    \o (IF obs_mismatched > ObsMismatchAllowed THEN <<"obs">> ELSE <<>>)
    \o (IF margin_diff # None /\ Abs(margin_diff[1]) >= MarginTol THEN <<"margin">> ELSE <<>>)
    \o (IF addon_diffs # <<>> THEN <<"addon">> ELSE <<>>)

\* The issue list with the second observation mismatch already an issue.
IssuesObsAtAllowed(consistency_ok, obs_mismatched, margin_diff, addon_diffs, sub_diffs) ==
    (IF ~consistency_ok THEN <<"consistency">> ELSE <<>>)
    \o (IF obs_mismatched >= ObsMismatchAllowed THEN <<"obs">> ELSE <<>>)
    \o (IF margin_diff # None /\ Abs(margin_diff[1]) > MarginTol THEN <<"margin">> ELSE <<>>)
    \o (IF addon_diffs # <<>> THEN <<"addon">> ELSE <<>>)

\* The overall status: the issue list, each issue by its type (the text
\* before "(" of "obs(3)", "margin(...)", "addon(1)").
Issues(consistency_ok, obs_mismatched, margin_diff, addon_diffs, sub_diffs) ==
    (IF ~consistency_ok THEN <<"consistency">> ELSE <<>>)
    \o (IF obs_mismatched > ObsMismatchAllowed THEN <<"obs">> ELSE <<>>)
    \o (IF margin_diff # None /\ Abs(margin_diff[1]) > MarginTol THEN <<"margin">> ELSE <<>>)
    \o (IF addon_diffs # <<>> THEN <<"addon">> ELSE <<>>)

\* The result record r of settlement s at index k.
Result(s, k, lk) ==
    LET ps == norm(s.periodStart)
        pe == norm(s.periodEnd)
        period_obs == PeriodObs(lk.obs_lookup, ps, pe)
        has_obs == Cardinality(DOMAIN period_obs) > 0
        prod == find_primary_product(lk, s.periodStart)
        addons == find_addons(lk, s.periodStart)
        model == IF prod # None THEN prod[1].pricingModel ELSE "Unknown"
        consistency_errors == Level1(s.tariffLines)
        consistency_ok == consistency_errors = <<>>
        obs == Level2(s.tariffLines, period_obs, has_obs)
        spot == Spot(period_obs, lk.spot_lookup, has_obs, model)
        recalc_margin == Margin(prod, s.periodStart, period_obs, has_obs, s.totalEnergyKwh)
        margin_diff == IF recalc_margin # None
                       THEN Some(recalc_margin[1] - s.marginAmountDkk * 1000)
                       ELSE None
        addon_diffs == AddonDiffs(addons, s.tariffLines, s.periodStart,
                                  EnergyBase(period_obs, has_obs, s.totalEnergyKwh))
        sub_diffs == SubDiffs(s.tariffLines, lk.sub_prices, s.periodStart,
                              parse_ts(s.periodEnd) - parse_ts(s.periodStart))
        issues == Issues(consistency_ok, obs.mismatched, margin_diff, addon_diffs, sub_diffs)
    IN  [i |-> k, ps |-> ps, pe |-> pe, kwh |-> s.totalEnergyKwh, has_obs |-> has_obs,
         obs_n |-> Cardinality(DOMAIN period_obs),
         prod |-> IF prod # None THEN prod[1].name ELSE "?", model |-> model,
         consistency_ok |-> consistency_ok, consistency_errors |-> consistency_errors,
         obs_matched |-> obs.matched, obs_mismatched |-> obs.mismatched,
         obs_missing |-> obs.missing, obs_errors |-> obs.errors,
         recalc_spot |-> spot.recalc_spot, recalc_margin |-> recalc_margin,
         margin_ref |-> s.marginAmountDkk, margin_diff |-> margin_diff,
         addon_diffs |-> addon_diffs, sub_diffs |-> sub_diffs,
         dh_total_ref |-> TotalRef(s.tariffLines, FALSE),
         product_total_ref |-> TotalRef(s.tariffLines, TRUE),
         issues |-> issues, ok |-> issues = <<>>,
         spot_missing |-> IF spot.recalc_spot # None THEN Some(spot.spot_missing_hours)
                          ELSE None]

\* The icon with the ok test first.
IconOkFirst(r) ==
    IF r.ok THEN "passed" ELSE IF ~r.has_obs THEN "skipped" ELSE "failed"

\* The icon of the status line: skipped, passed or failed.
Icon(r) ==
    IF ~r.has_obs THEN "skipped" ELSE IF r.ok THEN "passed" ELSE "failed"

---------------------------------------------------------------------------
(* Input domains                                                           *)

MaxRates == 2

\* Day boundaries the schedules and periods of the model are drawn from.
Days == {0, 1, 2}

\* Schedule boundaries (rate start and end dates, product period bounds,
\* subscription points) are written date-only or as a UTC date-time.
StartForms == {"date", "Z", "+00:00"}

\* The end of an entry is written as its start is, "+00:00" apart.
EndForm(f) == IF f = "date" THEN "date" ELSE "Z"

\* Settlement periods are UTC date-times.
RefForms == {"Z", "+00:00"}

RefTimestamps == {Iso(24 * d, f) : d \in Days, f \in RefForms}

\* Entry k of a schedule carries the rate 20 * k mDKK/kWh: the rates of one
\* schedule are distinct and non-zero, so a result names its entry.
RateOf(k) == 20 * k

RateEntries(k) ==
    {[startDate |-> Iso(24 * d, f),
      endDate |-> IF e = 0 THEN None ELSE Iso(24 * (d + e), EndForm(f)),
      rateDkkPerKwh |-> RateOf(k)] :
        <<d, f, e>> \in {x \in Days \X StartForms \X (0..Cardinality(Days)) :
                           x[3] = 0 \/ x[1] + x[3] \in Days}}

RECURSIVE RateSchedulesOfLen(_)
RateSchedulesOfLen(n) ==
    IF n = 0 THEN {<<>>}
    ELSE {Append(rs, r) : rs \in RateSchedulesOfLen(n - 1), r \in RateEntries(n)}

RateSchedules(max) == UNION {RateSchedulesOfLen(n) : n \in 0..max}

EmptyCache ==
    [spot |-> <<>>, observations |-> <<>>, products |-> <<>>,
     productPeriods |-> <<>>, prices |-> <<>>, settlements |-> <<>>]

NoLookups == [spot_lookup |-> <<>>, obs_lookup |-> <<>>, products |-> <<>>,
              prod_periods |-> <<>>, sub_prices |-> <<>>]

\* json.load and the lookup code find what they read: a parsed document
\* with every key of the cache files.
Readable(data) ==
    {"spot", "observations", "products", "productPeriods", "prices", "settlements"}
        \subseteq DOMAIN data

\* The lookups are built once, before anything reads them.
Load ==
    /\ pc = "load"
    /\ Readable(cache)
    /\ lookups' = BuildLookups(cache)
    /\ pc' = IF call.fn = "main" THEN "validate" ELSE "call"
    /\ UNCHANGED <<fetchVars, cache, argIndex, i, results, printed, summary, call, ret>>

---------------------------------------------------------------------------
(* Rate resolution on its own: one call of margin_rate_at                  *)

InitRate ==
    /\ call \in {[fn |-> "margin_rate_at",
                  product |-> [name |-> "Spot", pricingModel |-> "SpotAddon", rates |-> rs],
                  period_start |-> ps] : rs \in RateSchedules(MaxRates), ps \in RefTimestamps}
    /\ pc = "call"
    /\ ret = None
    /\ cache = EmptyCache
    /\ lookups = NoLookups
    /\ argIndex = None
    /\ i = 0
    /\ results = <<>>
    /\ printed = <<>>
    /\ summary = None
    /\ NotFetching

CallMarginRateAt ==
    /\ pc = "call"
    /\ call.fn = "margin_rate_at"
    /\ ret' = margin_rate_at(call.product, call.period_start)
    /\ pc' = "return"
    /\ UNCHANGED <<fetchVars, call, cache, lookups, argIndex, i, results, printed, summary>>

NextRate == CallMarginRateAt

SpecRate == InitRate /\ [][NextRate]_vars

---------------------------------------------------------------------------
(* Subscription resolution on its own: sub_prices built, one sub_price_at  *)

MaxPoints == 2

PointTimestamps == {Iso(24 * d, f) : d \in Days, f \in StartForms}

\* Point k of a schedule carries the monthly price 1000 * k mDKK.
RECURSIVE PointListsOfLen(_)
PointListsOfLen(n) ==
    IF n = 0 THEN {<<>>}
    ELSE {Append(pts, [timestamp |-> t, price |-> 1000 * n]) :
            pts \in PointListsOfLen(n - 1), t \in PointTimestamps}

PointLists(max) == UNION {PointListsOfLen(n) : n \in 0..max}

Price(type, chargeId, points) == [type |-> type, chargeId |-> chargeId, points |-> points]

OldPoints == <<[timestamp |-> Iso(0, "date"), price |-> 7000]>>

\* data["prices"] around one schedule: alone, under another price type, after
\* an older schedule of the same charge, beside another charge, or absent.
PriceLists(pts) ==
    {<<>>,
     <<Price("Abonnement", "40000", pts)>>,
     <<Price("Tarif", "40000", pts)>>,
     <<Price("Abonnement", "40000", OldPoints), Price("Abonnement", "40000", pts)>>,
     <<Price("Abonnement", "40000", pts), Price("Abonnement", "41000", OldPoints)>>,
     <<Price("Abonnement", "41000", pts)>>}

InitSub ==
    /\ cache \in {[EmptyCache EXCEPT !.prices = pl] :
                    pl \in UNION {PriceLists(pts) : pts \in PointLists(MaxPoints)}}
    /\ call \in {[fn |-> "sub_price_at", charge_id |-> "40000", period_start |-> ps] :
                    ps \in RefTimestamps}
    /\ pc = "load"
    /\ ret = None
    /\ lookups = NoLookups
    /\ argIndex = None
    /\ i = 0
    /\ results = <<>>
    /\ printed = <<>>
    /\ summary = None
    /\ NotFetching

CallSubPriceAt ==
    /\ pc = "call"
    /\ call.fn = "sub_price_at"
    /\ ret' = sub_price_at(lookups.sub_prices, call.charge_id, call.period_start)
    /\ pc' = "return"
    /\ UNCHANGED <<fetchVars, call, cache, lookups, argIndex, i, results, printed, summary>>

NextSub == Load \/ CallSubPriceAt

SpecSub == InitSub /\ [][NextSub]_vars

---------------------------------------------------------------------------
(* Normalisation on its own: one timestamp indexed, another looked up      *)

NormHours == {0, 1, 23}

NormForms == {"Z", "+00:00", "+01:00"}

NormTimestamps == {Iso(t, f) : t \in NormHours, f \in NormForms}

InitNorm ==
    /\ cache \in {[EmptyCache EXCEPT
                     !.observations = <<[timestamp |-> a, kwh |-> 1000]>>,
                     !.spot = <<[hourUtc |-> a, spotPriceDkk |-> Some(500)]>>] :
                    a \in NormTimestamps}
    /\ call \in {[fn |-> "norm", ts |-> b] : b \in NormTimestamps}
    /\ pc = "load"
    /\ ret = None
    /\ lookups = NoLookups
    /\ argIndex = None
    /\ i = 0
    /\ results = <<>>
    /\ printed = <<>>
    /\ summary = None
    /\ NotFetching

CallNorm ==
    /\ pc = "call"
    /\ call.fn = "norm"
    /\ ret' = norm(call.ts)
    /\ pc' = "return"
    /\ UNCHANGED <<fetchVars, call, cache, lookups, argIndex, i, results, printed, summary>>

NextNorm == Load \/ CallNorm

SpecNorm == InitNorm /\ [][NextNorm]_vars

---------------------------------------------------------------------------
(* Product classification on its own: find_primary_product, find_addons    *)

MaxPeriods == 2

Product(name, model, rates) == [name |-> name, pricingModel |-> model, rates |-> rates]

SpotProduct == Product("Spot", "SpotAddon",
                       <<[startDate |-> Iso(0, "date"), endDate |-> Iso(24 * 91, "date"),
                          rateDkkPerKwh |-> 20]>>)

FastProduct == Product("Fast", "Fixed",
                       <<[startDate |-> Iso(0, "date"), endDate |-> None, rateDkkPerKwh |-> 40]>>)

GreenProduct == Product("Grøn strøm", "Addon",
                        <<[startDate |-> Iso(0, "date"), endDate |-> None, rateDkkPerKwh |-> 10]>>)

\* data["products"]: complete, or holding the product "Spot" only.
ProductLists == {<<SpotProduct, FastProduct, GreenProduct>>, <<SpotProduct>>}

PeriodNames == {"Spot", "Fast", "Grøn strøm"}

\* A period as <<start day, start form, length in days>>, length 0 for no end:
\* periods from day 0 and from day 1, the latter written both ways.
PeriodShapes ==
    {<<0, "date", 0>>, <<0, "date", 1>>,
     <<1, "date", 0>>, <<1, "date", 1>>,
     <<1, "Z", 0>>, <<1, "Z", 1>>}

ProductPeriods ==
    {[productName |-> n,
      start |-> Iso(24 * x[1], x[2]),
      end |-> IF x[3] = 0 THEN None ELSE Iso(24 * (x[1] + x[3]), "date")] :
        n \in PeriodNames, x \in PeriodShapes}

RECURSIVE PeriodListsOfLen(_)
PeriodListsOfLen(n) ==
    IF n = 0 THEN {<<>>}
    ELSE {Append(pps, pp) : pps \in PeriodListsOfLen(n - 1), pp \in ProductPeriods}

PeriodLists(max) == UNION {PeriodListsOfLen(n) : n \in 0..max}

InitClassify ==
    /\ cache \in {[EmptyCache EXCEPT !.products = pl, !.productPeriods = pps] :
                    pl \in ProductLists, pps \in PeriodLists(MaxPeriods)}
    /\ call \in {[fn |-> f, period_start |-> Iso(24 * d, "Z")] :
                    f \in {"find_primary_product", "find_addons"}, d \in Days}
    /\ pc = "load"
    /\ ret = None
    /\ lookups = NoLookups
    /\ argIndex = None
    /\ i = 0
    /\ results = <<>>
    /\ printed = <<>>
    /\ summary = None
    /\ NotFetching

CallFindPrimaryProduct ==
    /\ pc = "call"
    /\ call.fn = "find_primary_product"
    /\ ret' = find_primary_product(lookups, call.period_start)
    /\ pc' = "return"
    /\ UNCHANGED <<fetchVars, call, cache, lookups, argIndex, i, results, printed, summary>>

CallFindAddons ==
    /\ pc = "call"
    /\ call.fn = "find_addons"
    /\ ret' = find_addons(lookups, call.period_start)
    /\ pc' = "return"
    /\ UNCHANGED <<fetchVars, call, cache, lookups, argIndex, i, results, printed, summary>>

NextClassify == Load \/ CallFindPrimaryProduct \/ CallFindAddons

SpecClassify == InitClassify /\ [][NextClassify]_vars

---------------------------------------------------------------------------
(* The validator: lookups built, every settlement validated, summary       *)

MaxSettlements == 2

\* Four hourly observations on 2024-01-02, in Wh.
Observations ==
    <<[timestamp |-> Iso(24, "Z"), kwh |-> 1000],
      [timestamp |-> Iso(25, "+00:00"), kwh |-> 1000],
      [timestamp |-> Iso(26, "Z"), kwh |-> 2000],
      [timestamp |-> Iso(27, "Z"), kwh |-> 500]>>

\* Spot prices of the same hours in DKK/MWh, the last one null.
SpotPrices ==
    <<[hourUtc |-> Iso(24, "Z"), spotPriceDkk |-> Some(500)],
      [hourUtc |-> Iso(25, "Z"), spotPriceDkk |-> Some(500)],
      [hourUtc |-> Iso(26, "+00:00"), spotPriceDkk |-> Some(400)],
      [hourUtc |-> Iso(27, "Z"), spotPriceDkk |-> None]>>

OpenPeriod(name) == [productName |-> name, start |-> Iso(0, "date"), end |-> None]

\* The cache with "Spot" and the addon attached to the metering point, and
\* the same cache with no product attached.
Caches ==
    {[spot |-> SpotPrices, observations |-> Observations,
      products |-> <<SpotProduct, FastProduct, GreenProduct>>,
      productPeriods |-> pps,
      prices |-> <<Price("Abonnement", "40000",
                         <<[timestamp |-> Iso(0, "date"), price |-> 3000]>>)>>,
      settlements |-> <<>>] :
        pps \in {<<OpenPeriod("Spot"), OpenPeriod("Grøn strøm")>>, <<>>}}

Detail(t, kwh, amount) == [timestamp |-> Iso(t, "+00:00"), kwh |-> kwh, amountDkk |-> amount]

Line(cid, amount, isSub, hd) ==
    [partyChargeTypeId |-> cid, amountDkk |-> amount, isSubscription |-> isSub,
     hourlyDetail |-> hd]

\* A distribution tariff line over the observed hours: amount 0.45 or 0.47
\* against hourly amounts adding up to 0.45, hourly kWh as observed or three
\* of them 0.010 kWh off.
EnergyLine(amount, off) ==
    Line(<<"DT_C_01">>, amount, FALSE,
         <<Detail(24, 1000 + off, 100), Detail(25, 1000 + off, 100),
           Detail(26, 2000 + off, 200), Detail(27, 500, 50)>>)

\* The subscription line of charge 40000 (monthly price 3.00).
SubLine(amount) == Line(<<"40000">>, amount, TRUE, <<>>)

\* The line of the addon product (0.045 for 4.5 kWh at 0.01).
AddonLine(amount) == Line(ProductKey("Grøn strøm"), amount, FALSE, <<>>)

TariffLineLists ==
    [clean        |-> <<EnergyLine(450, 0)>>,
     inconsistent |-> <<EnergyLine(470, 0)>>,
     mismatched   |-> <<EnergyLine(450, 10)>>,
     subOff       |-> <<EnergyLine(450, 0), SubLine(2000)>>,
     subOnly      |-> <<SubLine(2000)>>,
     addonOff     |-> <<EnergyLine(450, 0), AddonLine(1000)>>,
     allFine      |-> <<SubLine(3000), EnergyLine(450, 0), AddonLine(45)>>,
     allOff       |-> <<EnergyLine(470, 10), SubLine(2000), AddonLine(1000)>>]

\* A settlement of 4.5 kWh over 2024-01-02 (observed) or 2024-01-04 (not
\* observed), with the margin amount given in mDKK.
Settlement(day, margin, lines) ==
    [periodStart |-> Iso(24 * day, "Z"), periodEnd |-> Iso(24 * (day + 1), "+00:00"),
     totalEnergyKwh |-> 4500, marginAmountDkk |-> margin,
     tariffLines |-> TariffLineLists[lines]]

Settlements ==
    {Settlement(1, 90, l) : l \in DOMAIN TariffLineLists}
    \cup {Settlement(1, 2000, l) : l \in {"clean"}}
    \cup {Settlement(3, 90, l) : l \in {"clean", "allOff"}}
    \cup {Settlement(3, 2000, l) : l \in {"clean"}}

RECURSIVE SettlementListsOfLen(_)
SettlementListsOfLen(n) ==
    IF n = 0 THEN {<<>>}
    ELSE {Append(ss, s) : ss \in SettlementListsOfLen(n - 1), s \in Settlements}

SettlementLists(max) == UNION {SettlementListsOfLen(n) : n \in 0..max}

\* --index absent, or naming the second settlement.
IndexArgs == {None, Some(1)}

Init ==
    /\ cache \in {[c EXCEPT !.settlements = ss] :
                    c \in Caches, ss \in SettlementLists(MaxSettlements)}
    /\ argIndex \in IndexArgs
    /\ call = [fn |-> "main"]
    /\ pc = "load"
    /\ ret = None
    /\ lookups = NoLookups
    /\ i = 0
    /\ results = <<>>
    /\ printed = <<>>
    /\ summary = None
    /\ NotFetching

\* if args.index is not None and i != args.index: continue
SkipSettlement ==
    /\ pc = "validate"
    /\ i < Len(cache.settlements)
    /\ argIndex # None /\ i # argIndex[1]
    /\ i' = i + 1
    /\ UNCHANGED <<fetchVars, cache, argIndex, lookups, results, printed, summary, pc, call, ret>>

\* The loop body raises: 3d parses periodStart and periodEnd for every
\* subscription line of a distribution charge.
Raises(s) ==
    /\ \E k \in 1..Len(s.tariffLines) :
          /\ s.tariffLines[k].isSubscription
          /\ ~IsProductCharge(s.tariffLines[k].partyChargeTypeId)
    /\ ParseRaises(s.periodStart) \/ ParseRaises(s.periodEnd)

\* One pass of the loop body: the result record appended, the status line printed.
Validate ==
    /\ pc = "validate"
    /\ i < Len(cache.settlements)
    /\ IF argIndex = None THEN TRUE ELSE i = argIndex[1]
    /\ ~Raises(cache.settlements[i + 1])
    /\ LET r == Result(cache.settlements[i + 1], i, lookups)
       IN  /\ results' = Append(results, r)
           /\ printed' = Append(printed, [i |-> i, icon |-> Icon(r)])
    /\ i' = i + 1
    /\ UNCHANGED <<fetchVars, cache, argIndex, lookups, summary, pc, call, ret>>

\* The issue types occurring in the results (the keys of issue_types).
IssueTypes(rs) == UNION {{rs[k].issues[j] : j \in 1..Len(rs[k].issues)} : k \in 1..Len(rs)}

\* The figures of the summary with the issue breakdown taken over the
\* settlements with observations only.
SummaryOfObservedIssues(rs) ==
    LET with_obs == {k \in 1..Len(rs) : rs[k].has_obs}
        without_obs == {k \in 1..Len(rs) : ~rs[k].has_obs}
        ok_list == {k \in with_obs : rs[k].ok}
        with_margin == {k \in with_obs : rs[k].margin_diff # None}
        with_spot == {k \in with_obs : rs[k].recalc_spot # None}
        types == UNION {{rs[k].issues[j] : j \in 1..Len(rs[k].issues)} : k \in with_obs}
    IN  [total |-> Len(rs),
         with_obs |-> Cardinality(with_obs),
         without_obs |-> Cardinality(without_obs),
         validated |-> Cardinality(ok_list),
         all_consistent |-> \A k \in 1..Len(rs) : rs[k].consistency_ok,
         total_margin_diff |-> SumDict([k \in with_margin |-> Abs(rs[k].margin_diff[1])],
                                       with_margin),
         spot_total |-> SumDict([k \in with_spot |-> rs[k].recalc_spot[1]], with_spot),
         spot_periods |-> Cardinality(with_spot),
         spot_missing |-> SumDict([k \in with_spot |-> rs[k].spot_missing[1]], with_spot),
         total_obs_match |-> SumDict([k \in with_obs |-> rs[k].obs_matched], with_obs),
         total_obs_mismatch |-> SumDict([k \in with_obs |-> rs[k].obs_mismatched], with_obs),
         total_obs_missing |-> SumDict([k \in with_obs |-> rs[k].obs_missing], with_obs),
         issue_types |-> [ty \in types |->
                            Cardinality({<<k, j>> \in with_obs \X (1..4) :
                                           j <= Len(rs[k].issues) /\ rs[k].issues[j] = ty})]]

\* The figures of the summary.
SummaryOf(rs) ==
    LET with_obs == {k \in 1..Len(rs) : rs[k].has_obs}
        without_obs == {k \in 1..Len(rs) : ~rs[k].has_obs}
        ok_list == {k \in with_obs : rs[k].ok}
        with_margin == {k \in with_obs : rs[k].margin_diff # None}
        with_spot == {k \in with_obs : rs[k].recalc_spot # None}
    IN  [total |-> Len(rs),
         with_obs |-> Cardinality(with_obs),
         without_obs |-> Cardinality(without_obs),
         validated |-> Cardinality(ok_list),
         all_consistent |-> \A k \in 1..Len(rs) : rs[k].consistency_ok,
         total_margin_diff |-> SumDict([k \in with_margin |-> Abs(rs[k].margin_diff[1])],
                                       with_margin),
         spot_total |-> SumDict([k \in with_spot |-> rs[k].recalc_spot[1]], with_spot),
         spot_periods |-> Cardinality(with_spot),
         spot_missing |-> SumDict([k \in with_spot |-> rs[k].spot_missing[1]], with_spot),
         total_obs_match |-> SumDict([k \in with_obs |-> rs[k].obs_matched], with_obs),
         total_obs_mismatch |-> SumDict([k \in with_obs |-> rs[k].obs_mismatched], with_obs),
         total_obs_missing |-> SumDict([k \in with_obs |-> rs[k].obs_missing], with_obs),
         issue_types |-> [ty \in IssueTypes(rs) |->
                            Cardinality({<<k, j>> \in (1..Len(rs)) \X (1..4) :
                                           j <= Len(rs[k].issues) /\ rs[k].issues[j] = ty})]]

\* After the loop: the summary is printed and main returns.
Summary ==
    /\ pc = "validate"
    /\ i = Len(cache.settlements)
    /\ summary' = SummaryOf(results)
    /\ pc' = "done"
    /\ UNCHANGED <<fetchVars, cache, argIndex, lookups, i, results, printed, call, ret>>

Next == Load \/ SkipSettlement \/ Validate \/ Summary

Spec == Init /\ [][Next]_vars

\* The validator started on the caches cs, the settlements of each a list of
\* at most MaxSettlements of the candidates ss.
RECURSIVE ListsOver(_, _)
ListsOver(ss, n) ==
    IF n = 0 THEN {<<>>}
    ELSE LET shorter == ListsOver(ss, n - 1)
         IN  shorter \cup {Append(l, x) : l \in {l \in shorter : Len(l) = n - 1}, x \in ss}

InitWith(cs, ss) ==
    /\ cache \in {[c EXCEPT !.settlements = l] : c \in cs, l \in ListsOver(ss, MaxSettlements)}
    /\ argIndex \in IndexArgs
    /\ call = [fn |-> "main"]
    /\ pc = "load"
    /\ ret = None
    /\ lookups = NoLookups
    /\ i = 0
    /\ results = <<>>
    /\ printed = <<>>
    /\ summary = None
    /\ NotFetching

---------------------------------------------------------------------------
(* Properties of rate resolution (SpecRate)                                *)

Returned(fn) == pc = "return" /\ call.fn = fn

\* The UTC instant a timestamp denotes.
Instant(ts) == parse_ts(ts)

InRange(r, ps) ==
    Instant(r.startDate) <= Instant(ps) /\ Instant(ps) < Instant(r.endDate)

\* C4: an open-ended entry with start S does not give its rate at a reference
\* instant equal to S, however S and the reference are written.
C4_OpenEndedNotAtStart ==
    Returned("margin_rate_at") =>
        \A k \in 1..Len(call.product.rates) :
            LET r == call.product.rates[k]
            IN  (r.endDate = None /\ Instant(r.startDate) = Instant(call.period_start))
                    => ret # r.rateDkkPerKwh

\* C5: a ranged entry [S, E) is applied at every reference instant in [S, E),
\* S included (the result is then its rate or that of an entry starting no
\* earlier), and is not applied at E or later, nor before S.
C5_RangedHalfOpen ==
    Returned("margin_rate_at") =>
        LET rates == call.product.rates
            t == Instant(call.period_start)
            S == [k \in 1..Len(rates) |-> Instant(rates[k].startDate)]
        IN  \A k \in 1..Len(rates) :
                rates[k].endDate # None =>
                    IF S[k] <= t /\ t < Instant(rates[k].endDate)
                    THEN \E j \in 1..Len(rates) :
                            ret = rates[j].rateDkkPerKwh /\ S[j] >= S[k]
                    ELSE ret # rates[k].rateDkkPerKwh

\* A ranged entry written date-only gives its rate at its start instant.
C5_Witness ==
    /\ Returned("margin_rate_at")
    /\ \E k \in 1..Len(call.product.rates) :
          LET r == call.product.rates[k]
          IN  /\ r.endDate # None
              /\ Len(r.startDate) = 10
              /\ Instant(r.startDate) = Instant(call.period_start)
              /\ ret = r.rateDkkPerKwh

Permuted(s, p) == [k \in 1..Len(s) |-> s[p[k]]]

\* C6: every permutation of the rate entries resolves to the same rate.
C6_OrderIndependent ==
    Returned("margin_rate_at") =>
        \A p \in Permutations(1..Len(call.product.rates)) :
            margin_rate_at([call.product EXCEPT !.rates = Permuted(@, p)],
                           call.period_start) = ret

DistinctStarts(rates) ==
    \A a, b \in 1..Len(rates) : a # b => rates[a].startDate # rates[b].startDate

\* C6 (amended): when no two entries have the same startDate text, every
\* permutation of the rate entries resolves to the same rate.
C6_OrderIndependentDistinctStarts ==
    (Returned("margin_rate_at") /\ DistinctStarts(call.product.rates)) =>
        \A p \in Permutations(1..Len(call.product.rates)) :
            margin_rate_at([call.product EXCEPT !.rates = Permuted(@, p)],
                           call.period_start) = ret

\* Two open-ended entries given latest first, both started: the later start wins.
C6_Witness ==
    /\ Returned("margin_rate_at")
    /\ Len(call.product.rates) = 2
    /\ call.product.rates[1].endDate = None
    /\ call.product.rates[2].endDate = None
    /\ Instant(call.product.rates[2].startDate) < Instant(call.product.rates[1].startDate)
    /\ Instant(call.product.rates[1].startDate) < Instant(call.period_start)
    /\ ret = call.product.rates[1].rateDkkPerKwh

---------------------------------------------------------------------------
(* Properties of subscription resolution (SpecSub)                         *)

\* The schedule data["prices"] holds for a charge: the points of its last
\* "Abonnement" entry, none when it has no such entry.
ScheduleOf(prices, charge_id) ==
    LET es == {j \in 1..Len(prices) :
                 prices[j].type = "Abonnement" /\ prices[j].chargeId = charge_id}
    IN  IF es = {} THEN <<>> ELSE prices[Max(es)].points

\* C7: sub_price_at returns the amount of a point with the greatest instant
\* that is not later than the reference instant, and zero when there is none.
C7_GreatestPointNotLater ==
    Returned("sub_price_at") =>
        LET pts == ScheduleOf(cache.prices, call.charge_id)
            Q == {k \in 1..Len(pts) :
                    Instant(pts[k].timestamp) <= Instant(call.period_start)}
        IN  IF Q = {} THEN ret = 0
            ELSE \E k \in Q :
                    /\ ret = pts[k].price
                    /\ \A j \in Q : Instant(pts[j].timestamp) <= Instant(pts[k].timestamp)

\* Two points given latest first, the later one exactly at the reference
\* instant and a third of the data later still: the point at the instant wins.
C7_Witness ==
    /\ Returned("sub_price_at")
    /\ LET pts == ScheduleOf(cache.prices, call.charge_id)
       IN  /\ Len(pts) = 2
           /\ Instant(pts[1].timestamp) = Instant(call.period_start)
           /\ Instant(pts[2].timestamp) < Instant(pts[1].timestamp)
           /\ ret = pts[1].price

---------------------------------------------------------------------------
(* Properties of normalisation (SpecNorm)                                  *)

\* C8: a timestamp denoting the same UTC instant as an indexed one normalizes
\* to the key of that index entry, in whatever form it is written.
C8_SameInstantSameKey ==
    Returned("norm") =>
        (Instant(cache.observations[1].timestamp) = Instant(call.ts)
            => ret \in DOMAIN lookups.obs_lookup /\ ret \in DOMAIN lookups.spot_lookup)

\* The timestamp designates UTC by "Z" or by "+00:00".
UtcDesignated(ts) ==
    \/ ts[Len(ts)] = "Z"
    \/ SubSeq(ts, Len(ts) - 5, Len(ts)) = PlusZero

\* C8 (amended): two timestamps of the same instant that both designate UTC,
\* by "Z" or by "+00:00", normalize to the same key.
C8_UtcFormsSameKey ==
    Returned("norm") =>
        ((/\ Instant(cache.observations[1].timestamp) = Instant(call.ts)
          /\ UtcDesignated(cache.observations[1].timestamp)
          /\ UtcDesignated(call.ts))
            => ret \in DOMAIN lookups.obs_lookup /\ ret \in DOMAIN lookups.spot_lookup)

\* An entry indexed from the "+00:00" form is hit by the "Z" form.
C8_Witness ==
    /\ Returned("norm")
    /\ cache.observations[1].timestamp = Iso(23, "+00:00")
    /\ call.ts = Iso(23, "Z")
    /\ ret \in DOMAIN lookups.obs_lookup
    /\ ret \in DOMAIN lookups.spot_lookup

---------------------------------------------------------------------------
(* Properties of product classification (SpecClassify)                     *)

\* start <= instant < end, a missing end meaning open-ended.
Active(pp, ps) ==
    /\ Instant(pp.start) <= Instant(ps)
    /\ pp.end = None \/ Instant(ps) < Instant(pp.end)

\* The product data["products"] holds under a name, None when it holds none.
ProductNamed(products, name) ==
    LET js == {j \in 1..Len(products) : products[j].name = name}
    IN  IF js = {} THEN None ELSE Some(products[Max(js)])

\* C9: find_primary_product returns the product of the active non-addon
\* period met last in ascending-start scan order, which starts no earlier than
\* any other active non-addon period, and no product when none is active.
C9_PrimaryLastActiveNonAddon ==
    Returned("find_primary_product") =>
        LET pps == lookups.prod_periods
            Q == {k \in 1..Len(pps) :
                    Active(pps[k], call.period_start)
                    /\ pps[k].productName \notin addon_names}
        IN  IF Q = {} THEN ret = None
            ELSE /\ ret = ProductNamed(cache.products, pps[Max(Q)].productName)
                 /\ \A k \in Q : Instant(pps[k].start) <= Instant(pps[Max(Q)].start)

\* Two active primary periods given latest first: the later start wins.
C9_Witness ==
    /\ Returned("find_primary_product")
    /\ Len(cache.productPeriods) = 2
    /\ cache.productPeriods[1].productName = "Fast"
    /\ cache.productPeriods[2].productName = "Spot"
    /\ Active(cache.productPeriods[1], call.period_start)
    /\ Active(cache.productPeriods[2], call.period_start)
    /\ Instant(cache.productPeriods[2].start) < Instant(cache.productPeriods[1].start)
    /\ ret = Some(FastProduct)

\* C10: find_addons returns one product per active addon-named period whose
\* product is known, nothing else, and never the primary product.
C10_AddonsExactlyActiveAddonNamed ==
    Returned("find_addons") =>
        LET pps == cache.productPeriods
            A == {k \in 1..Len(pps) :
                    /\ Active(pps[k], call.period_start)
                    /\ pps[k].productName \in addon_names
                    /\ ProductNamed(cache.products, pps[k].productName) # None}
            primary == find_primary_product(lookups, call.period_start)
        IN  /\ Len(ret) = Cardinality(A)
            /\ \A j \in 1..Len(ret) :
                  /\ ret[j].name \in addon_names
                  /\ \E k \in A : Some(ret[j]) = ProductNamed(cache.products, pps[k].productName)
            /\ \A k \in A : \E j \in 1..Len(ret) : ret[j].name = pps[k].productName
            /\ primary # None => \A j \in 1..Len(ret) : ret[j] # primary[1]

\* An active addon period beside an active primary period.
C10_Witness ==
    /\ Returned("find_addons")
    /\ ret = <<GreenProduct>>
    /\ find_primary_product(lookups, call.period_start) = Some(SpotProduct)
    /\ Len(cache.productPeriods) = 2

---------------------------------------------------------------------------
(* Properties of the validator (Spec)                                      *)

\* The settlement has an observation at an instant in [periodStart, periodEnd).
Observed(s) ==
    \E k \in 1..Len(cache.observations) :
        LET t == Instant(cache.observations[k].timestamp)
        IN  Instant(s.periodStart) <= t /\ t < Instant(s.periodEnd)

\* The settlement result k was computed from.
SettlementOf(k) == cache.settlements[results[k].i + 1]

IssueSet(r) == {r.issues[j] : j \in 1..Len(r.issues)}

\* C1 (as stated): a settlement with no observation in its period enters
\* neither Tier-2 nor Tier-3: it gets no observation counts, no recomputed
\* spot, margin, addon or subscription value and no issue of any type, and
\* is reported as skipped.
C1_NoObsNothingComputed ==
    \A k \in 1..Len(results) :
        ~Observed(SettlementOf(k)) =>
            /\ results[k].obs_matched = 0
            /\ results[k].obs_mismatched = 0
            /\ results[k].obs_missing = 0
            /\ results[k].recalc_spot = None
            /\ results[k].recalc_margin = None
            /\ results[k].margin_diff = None
            /\ results[k].addon_diffs = <<>>
            /\ results[k].sub_diffs = <<>>
            /\ results[k].issues = <<>>
            /\ printed[k].icon = "skipped"

\* C1 (amended): a settlement with no observation in its period does not
\* enter Tier-2 and gets no recomputed spot: its observation counts are zero,
\* no example is kept, no "obs" issue is recorded and it is reported as
\* skipped; its margin is still recomputed, on its own total energy, whenever
\* a primary product is active, and its issues are among consistency, margin
\* and addon.
C1_NoObsTier2AndSpotSkipped ==
    \A k \in 1..Len(results) :
        ~Observed(SettlementOf(k)) =>
            /\ results[k].obs_n = 0
            /\ results[k].obs_matched = 0
            /\ results[k].obs_mismatched = 0
            /\ results[k].obs_missing = 0
            /\ results[k].obs_errors = <<>>
            /\ results[k].recalc_spot = None
            /\ results[k].spot_missing = None
            /\ IssueSet(results[k]) \subseteq {"consistency", "margin", "addon"}
            /\ printed[k].icon = "skipped"
            /\ (results[k].prod # "?") =>
                   LET rates == ProductNamed(cache.products, results[k].prod)[1].rates
                   IN  \E rate \in {0} \cup {rates[j].rateDkkPerKwh : j \in 1..Len(rates)} :
                           results[k].recalc_margin =
                               Some(SettlementOf(k).totalEnergyKwh * rate)

\* A settlement without observations, with hourly detail on a line, reported
\* as skipped with its margin recomputed and a margin issue recorded.
C1_Witness ==
    \E k \in 1..Len(results) :
        /\ ~Observed(SettlementOf(k))
        /\ FirstDetailLine(SettlementOf(k).tariffLines) # <<>>
        /\ printed[k].icon = "skipped"
        /\ results[k].recalc_margin # None
        /\ "margin" \in IssueSet(results[k])

\* The indexes of the settlements the loop has processed so far.
Processed ==
    {j \in 0..(i - 1) : IF argIndex = None THEN TRUE ELSE j = argIndex[1]}

\* C2: every processed settlement has exactly one outcome: skipped iff it
\* has no observation in its period, passed iff it has one and its issue list
\* is empty, failed iff it has one and its issue list is not empty; none is
\* dropped, and one without observations is never passed or failed.
C2_ExactlyOneOutcome ==
    /\ Len(printed) = Len(results)
    /\ Len(results) = Cardinality(Processed)
    /\ {results[k].i : k \in 1..Len(results)} = Processed
    /\ \A k \in 1..Len(printed) :
          LET s == SettlementOf(k)
              r == results[k]
          IN  /\ printed[k].i = r.i
              /\ printed[k].icon \in {"skipped", "passed", "failed"}
              /\ printed[k].icon = "skipped" <=> ~Observed(s)
              /\ printed[k].icon = "passed" <=> (Observed(s) /\ r.issues = <<>>)
              /\ printed[k].icon = "failed" <=> (Observed(s) /\ r.issues # <<>>)
    /\ pc = "done" =>
          /\ i = Len(cache.settlements)
          /\ summary.total = Cardinality(Processed)
          /\ summary.with_obs + summary.without_obs = summary.total

\* A finished run over two settlements, the first without observations and
\* free of issues (skipped), the second observed with issues (failed).
C2_Witness ==
    /\ pc = "done"
    /\ argIndex = None
    /\ Len(printed) = 2
    /\ printed[1].icon = "skipped" /\ results[1].issues = <<>>
    /\ printed[2].icon = "failed"

\* The issue set as the union of the five findings.
FiveFindings(r) ==
    (IF ~r.consistency_ok THEN {"consistency"} ELSE {})
    \cup (IF r.obs_mismatched > ObsMismatchAllowed THEN {"obs"} ELSE {})
    \cup (IF r.margin_diff # None /\ Abs(r.margin_diff[1]) > MarginTol
          THEN {"margin"} ELSE {})
    \cup (IF r.addon_diffs # <<>> THEN {"addon"} ELSE {})
    \cup (IF r.sub_diffs # <<>> THEN {"subscription"} ELSE {})

\* C3: the issue set of a settlement is the union of the five findings
\* (consistency failure, more than two observation mismatches, margin delta
\* over 1.0, an addon delta over its threshold, a subscription mismatch), and
\* an observed settlement with a subscription mismatch is reported as failed.
C3_IssueSetIsUnionOfFive ==
    \A k \in 1..Len(results) :
        /\ IssueSet(results[k]) = FiveFindings(results[k])
        /\ (results[k].has_obs /\ results[k].sub_diffs # <<>>) =>
               printed[k].icon = "failed"

---------------------------------------------------------------------------
(* Tier-1 on lines around the tolerance (SpecTier1)                        *)

\* The cache with "Spot" and the addon attached to the metering point.
AttachedCaches == {c \in Caches : c.productPeriods # <<>>}

\* A second distribution tariff line, one hour of 0.10.
NetLine(amount) == Line(<<"DT_C_02">>, amount, FALSE, <<Detail(24, 1000, 100)>>)

\* Line amounts 0, 0.005, 0.01, 0.011 and 0.02 off their hourly sums, on one
\* line or two, next to a line without hourly detail.
Tier1Lines ==
    {<<EnergyLine(450, 0)>>, <<EnergyLine(455, 0)>>, <<EnergyLine(460, 0)>>,
     <<EnergyLine(470, 0)>>, <<EnergyLine(430, 0)>>,
     <<EnergyLine(470, 0), NetLine(100)>>, <<EnergyLine(470, 0), NetLine(130)>>,
     <<EnergyLine(450, 0), NetLine(80)>>, <<SubLine(3000), EnergyLine(461, 0)>>}

SettlementWith(day, kwh, margin, lines) ==
    [periodStart |-> Iso(24 * day, "Z"), periodEnd |-> Iso(24 * (day + 1), "+00:00"),
     totalEnergyKwh |-> kwh, marginAmountDkk |-> margin, tariffLines |-> lines]

Tier1Settlements == {SettlementWith(1, 4500, 90, l) : l \in Tier1Lines}

InitTier1 == InitWith(AttachedCaches, Tier1Settlements)

SpecTier1 == InitTier1 /\ [][Next]_vars

\* The sum of the hourly amounts of a line.
DetailSum(t) == SumSeq([k \in 1..Len(t.hourlyDetail) |-> t.hourlyDetail[k].amountDkk])

\* The lines of settlement s with hourly detail whose amount is more than
\* 0.01 (10 mDKK) off the sum of their hourly amounts.
Violating(s) ==
    {j \in 1..Len(s.tariffLines) :
        /\ s.tariffLines[j].hourlyDetail # <<>>
        /\ Abs(s.tariffLines[j].amountDkk - DetailSum(s.tariffLines[j])) > 10}

\* C11: a consistency issue is raised for a settlement iff one of its lines
\* with hourly detail is more than 0.01 off the sum of its hourly amounts;
\* one record is kept for every such line, with both values and the
\* difference, in line order; and every settlement the loop has come to has
\* been checked, whatever the lines and settlements before it.
C11_ConsistencyIssueIffOverTolerance ==
    /\ Len(results) = Cardinality(Processed)
    /\ \A k \in 1..Len(results) :
          LET s == SettlementOf(k)
              r == results[k]
          IN  /\ ("consistency" \in IssueSet(r)) <=> (Violating(s) # {})
              /\ r.consistency_ok <=> (Violating(s) = {})
              /\ Len(r.consistency_errors) = Cardinality(Violating(s))
              /\ \A e \in 1..Len(r.consistency_errors) :
                    \E j \in Violating(s) :
                        /\ Cardinality({j2 \in Violating(s) : j2 < j}) = e - 1
                        /\ r.consistency_errors[e].cid = s.tariffLines[j].partyChargeTypeId
                        /\ r.consistency_errors[e].total = s.tariffLines[j].amountDkk
                        /\ r.consistency_errors[e].hd_sum = DetailSum(s.tariffLines[j])
                        /\ r.consistency_errors[e].diff =
                              Abs(s.tariffLines[j].amountDkk - DetailSum(s.tariffLines[j]))

\* Two settlements checked: the first with two violating lines and two
\* records, the second with a line exactly 0.01 off and no issue.
C11_Witness ==
    /\ Len(results) = 2
    /\ Cardinality(Violating(SettlementOf(1))) = 2
    /\ Len(results[1].consistency_errors) = 2
    /\ \E j \in 1..Len(SettlementOf(2).tariffLines) :
          /\ SettlementOf(2).tariffLines[j].hourlyDetail # <<>>
          /\ Abs(SettlementOf(2).tariffLines[j].amountDkk
                  - DetailSum(SettlementOf(2).tariffLines[j])) = 10
    /\ results[2].consistency_ok
    /\ "consistency" \notin IssueSet(results[2])

---------------------------------------------------------------------------
(* Tier-2 on hourly detail around the observations (SpecTier2)             *)

\* The cache with one more observation, on 2024-01-03.
Tier2Caches ==
    {[c EXCEPT !.observations = Append(@, [timestamp |-> Iso(48, "Z"), kwh |-> 700])] :
        c \in AttachedCaches}

\* Hourly detail of 0.10 an hour from <<hour, Wh>> pairs.
DetailsAt(hs) == [k \in 1..Len(hs) |-> Detail(hs[k][1], hs[k][2], 100)]

\* A consistent distribution tariff line with the hourly detail hs.
DetailLine(cid, isSub, hs) == Line(<<cid>>, 100 * Len(hs), isSub, DetailsAt(hs))

\* Hourly kWh as observed, 0.004, 0.005 and 0.010 off, at hours without an
\* observation and at an observed hour outside the period; one to four
\* mismatches; a subscription line with detail ahead of the checked line and
\* a second line with detail behind it.
Tier2Lines ==
    {<<DetailLine("DT_C_01", FALSE, <<<<24, 1004>>, <<25, 996>>, <<26, 2005>>, <<27, 495>>>>)>>,
     <<DetailLine("DT_C_01", FALSE, <<<<24, 1000>>, <<25, 1010>>, <<30, 1000>>>>)>>,
     <<DetailLine("DT_C_01", FALSE, <<<<24, 1010>>, <<25, 1010>>, <<28, 0>>, <<29, 0>>, <<48, 700>>>>)>>,
     <<DetailLine("DT_C_01", FALSE, <<<<24, 1010>>, <<25, 1010>>, <<26, 2010>>>>)>>,
     <<DetailLine("DT_C_01", FALSE, <<<<24, 1010>>, <<25, 990>>, <<26, 2010>>, <<27, 510>>>>)>>,
     <<DetailLine("40000", TRUE, <<<<24, 0>>, <<25, 0>>, <<26, 0>>>>),
       DetailLine("DT_C_01", FALSE, <<<<24, 1000>>, <<25, 1010>>>>),
       DetailLine("DT_C_02", FALSE, <<<<24, 0>>, <<25, 0>>, <<26, 0>>>>)>>,
     <<SubLine(3000)>>}

Tier2Settlements ==
    {SettlementWith(1, 4500, 90, l) : l \in Tier2Lines}
    \cup {SettlementWith(3, 4500, 90,
                         <<DetailLine("DT_C_01", FALSE, <<<<72, 1000>>, <<73, 1000>>, <<74, 1000>>>>)>>)}

InitTier2 == InitWith(Tier2Caches, Tier2Settlements)

SpecTier2 == InitTier2 /\ [][Next]_vars

\* The observations of the cache at the instant of timestamp ts, within the
\* period of settlement s.
ObservedAt(s, ts) ==
    LET t == Instant(ts)
    IN  IF Instant(s.periodStart) <= t /\ t < Instant(s.periodEnd)
        THEN {k \in 1..Len(cache.observations) : Instant(cache.observations[k].timestamp) = t}
        ELSE {}

\* The hourly detail Tier-2 checks: that of the first line of s with hourly
\* detail that is no subscription, none when s has no observation or no such line.
CheckedDetail(s) ==
    LET js == {j \in 1..Len(s.tariffLines) :
                 s.tariffLines[j].hourlyDetail # <<>> /\ ~s.tariffLines[j].isSubscription}
    IN  IF Observed(s) /\ js # {}
        THEN s.tariffLines[CHOOSE j \in js : \A j2 \in js : j <= j2].hourlyDetail
        ELSE <<>>

\* The entries of the hourly detail hd of s in each class (0.005 kWh is 5 Wh).
MatchedIn(s, hd) ==
    {e \in 1..Len(hd) :
        \E k \in ObservedAt(s, hd[e].timestamp) :
            Abs(hd[e].kwh - cache.observations[k].kwh) < 5}

MismatchedIn(s, hd) ==
    {e \in 1..Len(hd) :
        \E k \in ObservedAt(s, hd[e].timestamp) :
            ~(Abs(hd[e].kwh - cache.observations[k].kwh) < 5)}

MissingIn(s, hd) == {e \in 1..Len(hd) : ObservedAt(s, hd[e].timestamp) = {}}

MatchedEntries(s) == MatchedIn(s, CheckedDetail(s))

MismatchedEntries(s) == MismatchedIn(s, CheckedDetail(s))

MissingEntries(s) == MissingIn(s, CheckedDetail(s))

\* C12: every entry of the checked line's hourly detail falls in exactly one
\* class: matched (an in-period observation at its timestamp, less than
\* 0.005 kWh apart), mismatched (such an observation, not less than 0.005
\* apart), missing (no in-period observation); the three counts are those of
\* the classes, and the examples kept are the mismatches up to three.
C12_DetailEntriesClassified ==
    \A k \in 1..Len(results) :
        LET s == SettlementOf(k)
            r == results[k]
            n == Len(CheckedDetail(s))
        IN  /\ r.obs_matched = Cardinality(MatchedEntries(s))
            /\ r.obs_mismatched = Cardinality(MismatchedEntries(s))
            /\ r.obs_missing = Cardinality(MissingEntries(s))
            /\ r.obs_matched + r.obs_mismatched + r.obs_missing = n
            /\ MatchedEntries(s) \cap MismatchedEntries(s) = {}
            /\ Len(r.obs_errors) = IF r.obs_mismatched < 3 THEN r.obs_mismatched ELSE 3

\* One settlement with one entry of each class, and one with four mismatches
\* of which three are kept.
C12_Witness ==
    /\ Len(results) = 2
    /\ results[1].obs_matched = 1 /\ results[1].obs_mismatched = 1
    /\ results[1].obs_missing = 1 /\ Len(results[1].obs_errors) = 1
    /\ results[2].obs_mismatched = 4 /\ Len(results[2].obs_errors) = 3

\* C13: an observation issue is raised for a settlement iff more than two
\* entries of its checked detail are mismatched; up to two mismatches raise
\* none, and missing entries raise none however many.
C13_ObsIssueIffOverTwoMismatches ==
    \A k \in 1..Len(results) :
        ("obs" \in IssueSet(results[k])) <=>
            (Cardinality(MismatchedEntries(SettlementOf(k))) > 2)

\* One settlement with two mismatches and three missing entries and no
\* observation issue, one with three mismatches and the issue.
C13_Witness ==
    /\ Len(results) = 2
    /\ Cardinality(MismatchedEntries(SettlementOf(1))) = 2
    /\ Cardinality(MissingEntries(SettlementOf(1))) = 3
    /\ "obs" \notin IssueSet(results[1])
    /\ Cardinality(MismatchedEntries(SettlementOf(2))) = 3
    /\ "obs" \in IssueSet(results[2])

---------------------------------------------------------------------------
(* 3a, the spot cost, over products and spot price lists (SpecSpot)        *)

\* One price inside the period and one outside it.
SparseSpotPrices ==
    <<[hourUtc |-> Iso(50, "Z"), spotPriceDkk |-> Some(300)],
      [hourUtc |-> Iso(24, "+00:00"), spotPriceDkk |-> Some(500)]>>

\* The metering point on "Spot" (spot plus margin), on "Fast" (fixed price)
\* or on no product, with the price list complete but for a null or sparse.
SpotCaches ==
    {[c EXCEPT !.productPeriods = pps, !.spot = sp] :
        c \in AttachedCaches,
        pps \in {<<OpenPeriod("Spot")>>, <<OpenPeriod("Fast"), OpenPeriod("Grøn strøm")>>, <<>>},
        sp \in {SpotPrices, SparseSpotPrices}}

SpotSettlements ==
    {SettlementWith(1, 4500, 90, <<EnergyLine(450, 0)>>),
     SettlementWith(1, 5000, 90, <<>>),
     SettlementWith(3, 4500, 90, <<EnergyLine(450, 0)>>)}

InitSpot == InitWith(SpotCaches, SpotSettlements)

SpecSpot == InitSpot /\ [][Next]_vars

\* The observations of the cache within the period of settlement s.
InPeriod(s) ==
    {k \in 1..Len(cache.observations) :
        LET t == Instant(cache.observations[k].timestamp)
        IN  Instant(s.periodStart) <= t /\ t < Instant(s.periodEnd)}

\* The non-null spot prices of the cache at the instant of observation k.
SpotPricesAt(k) ==
    {j \in 1..Len(cache.spot) :
        /\ cache.spot[j].spotPriceDkk # None
        /\ Instant(cache.spot[j].hourUtc) = Instant(cache.observations[k].timestamp)}

\* The pricing models of the products attached, other than as addons, at
\* the start of the period of s.
PrimaryModels(s) ==
    {cache.products[j].pricingModel :
        j \in {j \in 1..Len(cache.products) :
                 \E q \in 1..Len(cache.productPeriods) :
                     /\ cache.productPeriods[q].productName = cache.products[j].name
                     /\ cache.productPeriods[q].productName \notin addon_names
                     /\ Active(cache.productPeriods[q], s.periodStart)}}

\* C14: the spot cost is recomputed iff the settlement has an observation in
\* its period and its primary product is priced spot plus margin; it is the
\* sum, over the in-period observations with a spot price, of the observed
\* kWh times the price per kWh (Wh times DKK/MWh gives micro-DKK); and the
\* in-period observations without a spot price are the missing hours, so
\* priced and missing hours add up to the in-period observations.
C14_SpotCostOverPricedHours ==
    \A k \in 1..Len(results) :
        LET s == SettlementOf(k)
            r == results[k]
            priced == {o \in InPeriod(s) : SpotPricesAt(o) # {}}
            cost == [o \in priced |->
                       cache.observations[o].kwh
                         * cache.spot[CHOOSE j \in SpotPricesAt(o) : TRUE].spotPriceDkk[1]]
        IN  /\ (r.recalc_spot # None) <=> (InPeriod(s) # {} /\ PrimaryModels(s) = {"SpotAddon"})
            /\ (r.recalc_spot # None) =>
                  /\ r.recalc_spot = Some(SumDict(cost, priced))
                  /\ r.spot_missing = Some(Cardinality(InPeriod(s) \ priced))
                  /\ Cardinality(priced) + r.spot_missing[1] = Cardinality(InPeriod(s))
            /\ (r.recalc_spot = None) => r.spot_missing = None

\* A settlement on "Spot" with three priced hours, 1.80 recomputed, and one
\* hour with a null price counted as missing.
C14_Witness ==
    \E k \in 1..Len(results) :
        /\ results[k].recalc_spot = Some(1800000)
        /\ results[k].spot_missing = Some(1)
        /\ Cardinality(InPeriod(SettlementOf(k))) = 4
        /\ \E j \in 1..Len(cache.spot) : cache.spot[j].spotPriceDkk = None

---------------------------------------------------------------------------
(* 3b, the margin, around its tolerance (SpecMargin)                       *)

\* The metering point on "Spot" (0.02 per kWh), on "Fast" (0.04) or on no
\* product.
MarginCaches ==
    {[c EXCEPT !.productPeriods = pps] :
        c \in AttachedCaches,
        pps \in {<<OpenPeriod("Spot")>>, <<OpenPeriod("Fast")>>, <<>>}}

\* Settlements recording 5.0 kWh where 4.5 were observed (2024-01-02) or
\* none (2024-01-04), their margin amounts 0, 1.0 and 1.001 off the margin
\* of "Spot".
MarginSettlements ==
    {SettlementWith(1, 5000, m, <<>>) : m \in {90, 1090, 1091, -910, -911}}
    \cup {SettlementWith(3, 5000, m, <<>>) : m \in {100, 1100, 1101}}

InitMargin == InitWith(MarginCaches, MarginSettlements)

SpecMargin == InitMargin /\ [][Next]_vars

\* The products attached, other than as addons (or as addons), at the start
\* of the period of s, as indexes into the products of the cache.
AttachedProducts(s, asAddon) ==
    {j \in 1..Len(cache.products) :
        \E q \in 1..Len(cache.productPeriods) :
            /\ cache.productPeriods[q].productName = cache.products[j].name
            /\ (cache.productPeriods[q].productName \in addon_names) = asAddon
            /\ Active(cache.productPeriods[q], s.periodStart)}

\* The rate of product p in force at the instant of ps: that of the entry
\* starting last among those in force, 0 without one.
RateInForce(p, ps) ==
    LET inForce == {j \in 1..Len(p.rates) :
                      IF p.rates[j].endDate = None
                      THEN Instant(p.rates[j].startDate) < Instant(ps)
                      ELSE InRange(p.rates[j], ps)}
    IN  IF inForce = {} THEN 0
        ELSE p.rates[CHOOSE j \in inForce :
                        \A j2 \in inForce :
                            Instant(p.rates[j2].startDate) <= Instant(p.rates[j].startDate)
                    ].rateDkkPerKwh

\* The energy of s the amounts are recomputed on: the sum of the in-period
\* observations, the recorded total without any.
EnergyOf(s) ==
    IF InPeriod(s) = {} THEN s.totalEnergyKwh
    ELSE SumDict([k \in InPeriod(s) |-> cache.observations[k].kwh], InPeriod(s))

\* C15: with a primary product the recomputed margin is its rate in force at
\* the period start times the observed energy of the period, or times the
\* recorded total energy without observations; a margin issue is raised iff
\* the recomputed and the recorded margin are more than 1.0 apart; without
\* a primary product no margin is recomputed and no margin issue raised.
C15_MarginAndItsIssue ==
    \A k \in 1..Len(results) :
        LET s == SettlementOf(k)
            r == results[k]
            primary == AttachedProducts(s, FALSE)
        IN  IF primary = {}
            THEN r.recalc_margin = None /\ "margin" \notin IssueSet(r)
            ELSE \A j \in primary :
                   LET margin == RateInForce(cache.products[j], s.periodStart) * EnergyOf(s)
                   IN  /\ r.recalc_margin = Some(margin)
                       /\ ("margin" \in IssueSet(r)) <=>
                             (Abs(margin - s.marginAmountDkk * 1000) > 1000000)

\* An observed settlement recording another total than observed, its margin
\* exactly 1.0 off and no issue, and an unobserved one with its margin
\* recomputed on the recorded total, 1.001 off, and the issue.
C15_Witness ==
    /\ Len(results) = 2
    /\ InPeriod(SettlementOf(1)) # {}
    /\ SettlementOf(1).totalEnergyKwh # EnergyOf(SettlementOf(1))
    /\ results[1].margin_diff \in {Some(1000000), Some(-1000000)}
    /\ "margin" \notin IssueSet(results[1])
    /\ InPeriod(SettlementOf(2)) = {}
    /\ results[2].recalc_margin = Some(20 * SettlementOf(2).totalEnergyKwh)
    /\ results[2].margin_diff = Some(-1001000)
    /\ "margin" \in IssueSet(results[2])

---------------------------------------------------------------------------
(* 3c, the addons, around their tolerance (SpecAddon)                      *)

FeeProduct == Product("ØgetBal.geb.udenf-for", "Addon",
                      <<[startDate |-> Iso(0, "date"), endDate |-> None, rateDkkPerKwh |-> 30]>>)

\* The metering point on "Spot" with one addon (0.01 per kWh), with two
\* (0.01 and 0.03) or with none.
AddonCaches ==
    {[c EXCEPT !.products = Append(@, FeeProduct), !.productPeriods = pps] :
        c \in AttachedCaches,
        pps \in {<<OpenPeriod("Spot"), OpenPeriod("Grøn strøm")>>,
                 <<OpenPeriod("Grøn strøm"), OpenPeriod("Spot"),
                   OpenPeriod("ØgetBal.geb.udenf-for")>>,
                 <<OpenPeriod("Spot")>>}}

AddonLineOf(name, amount) == Line(ProductKey(name), amount, FALSE, <<>>)

\* Addon lines 0, 0.50 and 0.51 off the recomputed amounts (0.045 and 0.135
\* on the 4.5 kWh observed, 0.05 on the 5.0 kWh recorded), a second line of
\* the same addon, and no line for an addon.
AddonSettlements ==
    {SettlementWith(1, 5000, 90, l) :
        l \in {<<AddonLineOf("Grøn strøm", 45)>>,
               <<AddonLineOf("Grøn strøm", 545)>>,
               <<AddonLineOf("Grøn strøm", 555)>>,
               <<AddonLineOf("Grøn strøm", 545), AddonLineOf("Grøn strøm", 2000)>>,
               <<AddonLineOf("ØgetBal.geb.udenf-for", 645), AddonLineOf("Grøn strøm", 45)>>}}
    \cup {SettlementWith(3, 5000, 100, <<AddonLineOf("Grøn strøm", a)>>) : a \in {-450, 560}}

InitAddon == InitWith(AddonCaches, AddonSettlements)

SpecAddon == InitAddon /\ [][Next]_vars

\* The line of s matching product p: the first one charged to "PRODUCT:<name>".
MatchingLines(s, p) ==
    LET js == {j \in 1..Len(s.tariffLines) :
                 s.tariffLines[j].partyChargeTypeId = <<"PRODUCT:", p.name>>}
    IN  IF js = {} THEN {} ELSE {s.tariffLines[CHOOSE j \in js : \A j2 \in js : j <= j2]}

\* The names of the active addons of s with a matching line whose amount is
\* more than 0.50 off the rate in force times the energy.
FlaggedAddons(s) ==
    LET energy == EnergyOf(s)
    IN  {cache.products[j].name :
            j \in {j \in AttachedProducts(s, TRUE) :
                     \E t \in MatchingLines(s, cache.products[j]) :
                         Abs(RateInForce(cache.products[j], s.periodStart) * energy
                             - t.amountDkk * 1000) > 500000}}

\* C16: an active addon with a matching line is flagged iff its rate at the
\* period start times the energy and the line amount are more than 0.50
\* apart, and an addon issue is raised iff at least one addon is flagged.
C16_AddonFlaggedOverHalf ==
    \A k \in 1..Len(results) :
        LET s == SettlementOf(k)
            r == results[k]
            flagged == FlaggedAddons(s)
        IN  /\ {r.addon_diffs[e].name : e \in 1..Len(r.addon_diffs)} = flagged
            /\ Len(r.addon_diffs) = Cardinality(flagged)
            /\ ("addon" \in IssueSet(r)) <=> (flagged # {})

\* One settlement whose addon line is exactly 0.50 off, unflagged, and one
\* whose line is 0.51 off, flagged with the issue raised.
C16_Witness ==
    /\ Len(results) = 2
    /\ \E t \in MatchingLines(SettlementOf(1), GreenProduct) :
          Abs(10 * EnergyOf(SettlementOf(1)) - t.amountDkk * 1000) = 500000
    /\ AttachedProducts(SettlementOf(1), TRUE) # {}
    /\ results[1].addon_diffs = <<>> /\ "addon" \notin IssueSet(results[1])
    /\ Len(results[2].addon_diffs) = 1
    /\ Abs(results[2].addon_diffs[1].d) = 510000
    /\ "addon" \in IssueSet(results[2])

---------------------------------------------------------------------------
(* 3d, the subscription amounts, over period lengths (SpecSubscription)    *)

\* A settlement over the given number of days from 2024-01-02.
PeriodSettlement(days, lines) ==
    [periodStart |-> Iso(24, "Z"), periodEnd |-> Iso(24 * (1 + days), "Z"),
     totalEnergyKwh |-> 4500, marginAmountDkk |-> 90, tariffLines |-> lines]

\* Subscription lines of charge 40000 (monthly price 3.00) over 1, 30 and 60
\* days: the monthly amount, the prorated amount, and amounts 5%, 10%, 33%
\* and 300% off one of them.
SubscriptionSettlements ==
    {PeriodSettlement(1, <<SubLine(a)>>) : a \in {3000, 2000, 100, 400}}
    \cup {PeriodSettlement(30, <<SubLine(a)>>) : a \in {3300}}
    \cup {PeriodSettlement(60, <<SubLine(a)>>) : a \in {6000, 6300, 6600}}

InitSubscription == InitWith(AttachedCaches, SubscriptionSettlements)

SpecSubscription == InitSubscription /\ [][Next]_vars

\* The monthly amount of charge cid in force at the instant of ps: the price
\* of the latest point not later than ps, 0 without one.
MonthlyAmount(cid, ps) ==
    LET ab == {j \in 1..Len(cache.prices) :
                 cache.prices[j].type = "Abonnement" /\ cache.prices[j].chargeId = cid}
        pts == IF ab = {} THEN <<>> ELSE cache.prices[Max(ab)].points
        reached == {j \in 1..Len(pts) : Instant(pts[j].timestamp) <= Instant(ps)}
    IN  IF reached = {} THEN 0
        ELSE pts[CHOOSE j \in reached :
                    \A j2 \in reached :
                        Instant(pts[j2].timestamp) <= Instant(pts[j].timestamp)].price

\* amount is within 15% of num/den.
Within15(amount, num, den) == Abs(amount * den - num) * 20 <= 3 * Abs(num)

\* The stored amount of line t of s is within 15% of the monthly amount or
\* within 15% of the monthly amount times days/30 (hours/720).
Accepted(s, t) ==
    LET monthly == MonthlyAmount(t.partyChargeTypeId[1], s.periodStart)
        hours == Instant(s.periodEnd) - Instant(s.periodStart)
    IN  \/ Within15(t.amountDkk, monthly, 1)
        \/ Within15(t.amountDkk, monthly * hours, 720)

\* C17: a subscription line of a distribution charge is flagged as a
\* subscription mismatch iff its stored amount is neither within 15% of the
\* monthly amount nor within 15% of the monthly amount prorated by days/30.
C17_SubscriptionWithin15Percent ==
    \A k \in 1..Len(results) :
        LET s == SettlementOf(k)
            flagged == {j \in 1..Len(s.tariffLines) :
                          /\ s.tariffLines[j].isSubscription
                          /\ s.tariffLines[j].partyChargeTypeId[1] # "PRODUCT:"
                          /\ ~Accepted(s, s.tariffLines[j])}
        IN  /\ Len(results[k].sub_diffs) = Cardinality(flagged)
            /\ \A j \in flagged :
                  \E e \in 1..Len(results[k].sub_diffs) :
                      /\ results[k].sub_diffs[e].cid = s.tariffLines[j].partyChargeTypeId
                      /\ results[k].sub_diffs[e].amt = s.tariffLines[j].amountDkk

---------------------------------------------------------------------------
(* One day end to end (SpecEndToEnd)                                       *)

HoursOfDay == 24

\* 24 observations of 1.0 kWh and 24 spot prices of 500 DKK/MWh over
\* 2024-01-01, the timestamps written with "Z" and with "+00:00" in turn;
\* "Spot" with its one ranged rate {2024-01-01, 2024-04-01, 0.02} attached.
DayCache ==
    [spot |-> [h \in 1..HoursOfDay |->
                 [hourUtc |-> Iso(h - 1, IF h % 2 = 0 THEN "Z" ELSE "+00:00"),
                  spotPriceDkk |-> Some(500)]],
     observations |-> [h \in 1..HoursOfDay |->
                         [timestamp |-> Iso(h - 1, IF h % 3 = 0 THEN "+00:00" ELSE "Z"),
                          kwh |-> 1000]],
     products |-> <<SpotProduct>>,
     productPeriods |-> <<OpenPeriod("Spot")>>,
     prices |-> <<>>,
     settlements |-> <<>>]

\* Settlements over [2024-01-01T00:00Z, 2024-01-02T00:00Z) recording a
\* margin 0, exactly 1.0 and 1.001 off 0.48, with no line, a consistent
\* line or an inconsistent one.
DaySettlements ==
    {SettlementWith(0, 24000, m, <<DetailLine("DT_C_01", FALSE, <<<<0, 1000>>, <<1, 1000>>>>)>>) :
        m \in {1480, 1481, -521}}
    \cup {SettlementWith(0, 24000, 480, <<>>),
          SettlementWith(0, 24000, 480,
                         <<Line(<<"DT_C_01">>, 300, FALSE, DetailsAt(<<<<0, 1000>>, <<1, 1000>>>>))>>)}

InitEndToEnd == InitWith({DayCache}, DaySettlements)

SpecEndToEnd == InitEndToEnd /\ [][Next]_vars

\* C18: over the day with 24 observations of 1.0 kWh, 24 spot prices of 500
\* and the rate 0.02, the recomputed spot cost is 12.00 and the recomputed
\* margin 0.48 (in micro-DKK); a settlement with nothing else wrong passes
\* when its recorded margin is within 1.0 of 0.48 and fails when it is not.
C18_EndToEndDay ==
    \A k \in 1..Len(results) :
        LET s == SettlementOf(k)
            r == results[k]
            within == Abs(s.marginAmountDkk - 480) <= 1000
            nothingElse == /\ Violating(s) = {}
                           /\ Cardinality(MismatchedEntries(s)) <= 2
                           /\ FlaggedAddons(s) = {}
            from == Instant(s.periodStart)
            to == Instant(s.periodEnd)
            obsAt == [o \in 1..Len(cache.observations) |->
                        Instant(cache.observations[o].timestamp)]
            spotAt == [j \in 1..Len(cache.spot) |-> Instant(cache.spot[j].hourUtc)]
            inPeriod == {o \in 1..Len(cache.observations) : from <= obsAt[o] /\ obsAt[o] < to}
        IN  (/\ Cardinality(inPeriod) = 24
             /\ \A o \in inPeriod : cache.observations[o].kwh = 1000
             /\ \A o \in inPeriod :
                   \E j \in 1..Len(cache.spot) :
                       spotAt[j] = obsAt[o] /\ cache.spot[j].spotPriceDkk = Some(500))
            => /\ r.recalc_spot = Some(12000000)
               /\ r.spot_missing = Some(0)
               /\ r.recalc_margin = Some(480000)
               /\ (within /\ nothingElse) => printed[k].icon = "passed"
               /\ ~within => printed[k].icon = "failed"

\* Two settlements of the day: one recording a margin exactly 1.0 above
\* 0.48, passed, one recording 1.001 above, failed.
C18_Witness ==
    /\ Len(results) = 2
    /\ results[1].obs_n = 24
    /\ results[1].recalc_spot = Some(12000000)
    /\ results[1].recalc_margin = Some(480000)
    /\ results[1].margin_ref = 1480 /\ printed[1].icon = "passed"
    /\ results[2].margin_ref = 1481 /\ printed[2].icon = "failed"

---------------------------------------------------------------------------
(* Malformed input (SpecAbort)                                             *)

\* A cache file json.load cannot parse: no document to read from.
Unreadable == [error |-> "JSONDecodeError"]

\* A date no calendar has.
BadDate == <<"2", "0", "2", "4", "-", "0", "1", "-", "9", "9">>

\* Settlements of 2024-01-02, well-formed or with periodEnd or periodStart
\* malformed, with a subscription line or without one.
AbortSettlements ==
    {SettlementWith(1, 4500, 90, <<SubLine(3000)>>),
     [SettlementWith(1, 4500, 90, <<SubLine(3000)>>) EXCEPT !.periodEnd = BadDate],
     [SettlementWith(1, 4500, 90, <<SubLine(3000)>>) EXCEPT !.periodStart = BadDate],
     [SettlementWith(1, 4500, 90, <<EnergyLine(450, 0)>>) EXCEPT !.periodEnd = BadDate]}

InitAbort ==
    /\ cache \in {Unreadable}
                 \cup {[c EXCEPT !.settlements = l] :
                         c \in AttachedCaches, l \in ListsOver(AbortSettlements, MaxSettlements)}
    /\ argIndex \in IndexArgs
    /\ call = [fn |-> "main"]
    /\ pc = "load"
    /\ ret = None
    /\ lookups = NoLookups
    /\ i = 0
    /\ results = <<>>
    /\ printed = <<>>
    /\ summary = None
    /\ NotFetching

\* json.load or the lookup code raises: the exception leaves main and the
\* process ends with a traceback.
LoadFails ==
    /\ pc = "load"
    /\ ~Readable(cache)
    /\ pc' = "aborted"
    /\ UNCHANGED <<fetchVars, cache, argIndex, lookups, i, results, printed, summary, call, ret>>

\* The loop body raises on the settlement it has come to: nothing catches
\* the exception, the process ends with a traceback, later settlements and
\* the summary are never reached.
Raise ==
    /\ pc = "validate"
    /\ i < Len(cache.settlements)
    /\ IF argIndex = None THEN TRUE ELSE i = argIndex[1]
    /\ Raises(cache.settlements[i + 1])
    /\ pc' = "aborted"
    /\ UNCHANGED <<fetchVars, cache, argIndex, lookups, i, results, printed, summary, call, ret>>

NextAbort == Load \/ LoadFails \/ SkipSettlement \/ Validate \/ Raise \/ Summary

SpecAbort == InitAbort /\ [][NextAbort]_vars

\* C19: the run aborts at load time only, before the lookups are built and
\* before any settlement is validated or reported; once validation has
\* started no settlement aborts the run.
C19_AbortOnlyAtLoad ==
    pc = "aborted" => /\ lookups = NoLookups
                      /\ results = <<>>
                      /\ printed = <<>>

---------------------------------------------------------------------------
(* Validation as a function of the settlement and the lookups (SpecPure)   *)

\* A clean and a faulty observed settlement, an unobserved one and one with
\* its margin off.
PureSettlements ==
    {Settlement(1, 90, "clean"), Settlement(1, 90, "allOff"),
     Settlement(3, 2000, "clean"), Settlement(1, 2000, "inconsistent")}

InitPure == InitWith(Caches, PureSettlements)

SpecPure == InitPure /\ [][Next]_vars

\* Every result record is the one validation gives for its settlement and
\* the lookups built from the cache, whatever was validated before it.
ResultsFromSettlementAlone ==
    \A k \in 1..Len(results) :
        results[k] = Result(SettlementOf(k), results[k].i, BuildLookups(cache))

\* A step of the validation loop changes no lookup, no settlement or other
\* cache data, and no result record already made.
ValidationStepReadsOnly ==
    (pc = "validate") =>
        /\ lookups' = lookups
        /\ cache' = cache
        /\ Len(results') >= Len(results)
        /\ \A k \in 1..Len(results) : results'[k] = results[k]

---------------------------------------------------------------------------
(* The batch summary (SpecSummary)                                         *)

\* Settlements of every outcome: passed, failed on the margin, failed on
\* consistency, observations and addon, and two without observations that
\* carry issues of their own.
SummarySettlements ==
    {Settlement(1, 90, "clean"), Settlement(1, 2000, "clean"), Settlement(1, 90, "allOff"),
     Settlement(3, 2000, "clean"), Settlement(3, 90, "allOff")}

InitSummary == InitWith(Caches, SummarySettlements)

SpecSummary == InitSummary /\ [][Next]_vars

\* The number of status lines printed with the icon.
IconCount(icon) == Cardinality({k \in 1..Len(printed) : printed[k].icon = icon})

\* The per-settlement values of a figure, in result order.
ObsMatchedEach == [k \in 1..Len(results) |-> results[k].obs_matched]
ObsMismatchedEach == [k \in 1..Len(results) |-> results[k].obs_mismatched]
ObsMissingEach == [k \in 1..Len(results) |-> results[k].obs_missing]
SpotEach ==
    [k \in 1..Len(results) |->
        IF results[k].recalc_spot # None THEN results[k].recalc_spot[1] ELSE 0]
ObservedMarginEach ==
    [k \in 1..Len(results) |->
        IF Observed(SettlementOf(k)) /\ results[k].margin_diff # None
        THEN Abs(results[k].margin_diff[1]) ELSE 0]

\* The outcome counts and the totals of the summary are those of the
\* per-settlement outcomes and values.
CountsAndTotalsAgree ==
    /\ summary.total = Len(results)
    /\ summary.without_obs = IconCount("skipped")
    /\ summary.validated = IconCount("passed")
    /\ summary.with_obs - summary.validated = IconCount("failed")
    /\ IconCount("skipped") + IconCount("passed") + IconCount("failed") = Len(results)
    /\ summary.total_obs_match = SumSeq(ObsMatchedEach)
    /\ summary.total_obs_mismatch = SumSeq(ObsMismatchedEach)
    /\ summary.total_obs_missing = SumSeq(ObsMissingEach)
    /\ summary.total_margin_diff = SumSeq(ObservedMarginEach)
    /\ summary.spot_total = SumSeq(SpotEach)

\* The issue breakdown counts, for every issue type, the settlements with
\* one of the outcomes whose issue set holds the type; a type no such
\* settlement has is not listed.
BreakdownCounts(outcomes) ==
    \A ty \in {"consistency", "obs", "margin", "addon"} :
        LET n == Cardinality({k \in 1..Len(results) :
                                /\ printed[k].icon \in outcomes
                                /\ ty \in IssueSet(results[k])})
        IN  IF n = 0 THEN ty \notin DOMAIN summary.issue_types
            ELSE ty \in DOMAIN summary.issue_types /\ summary.issue_types[ty] = n

\* C21 (as stated): in the summary the counts of skipped, passed and failed
\* settlements add up to the number of processed settlements, the
\* observation totals, the summed absolute margin deltas and the spot total
\* are the sums of the per-settlement values, and the count of every issue
\* type is the number of failed settlements whose issue set holds the type,
\* a skipped settlement adding to none.
C21_BreakdownCountsFailedOnly ==
    summary # None => CountsAndTotalsAgree /\ BreakdownCounts({"failed"})

\* C21 (amended): in the summary the counts of skipped, passed and failed
\* settlements add up to the number of processed settlements, the
\* observation totals and the spot total are the sums of the per-settlement
\* values, the margin total is the sum of the absolute margin deltas of the
\* settlements with observations, and the count of every issue type is the
\* number of settlements, failed or skipped, whose issue set holds the type.
C21_SummaryMatchesOutcomes ==
    summary # None => CountsAndTotalsAgree /\ BreakdownCounts({"failed", "skipped"})

\* A finished run over a failed and a skipped settlement that both carry a
\* margin issue, counted twice in the breakdown.
C21_Witness ==
    /\ summary # None
    /\ Len(results) = 2
    /\ IconCount("failed") = 1
    /\ IconCount("skipped") = 1
    /\ \A k \in 1..2 : "margin" \in IssueSet(results[k])
    /\ summary.issue_types["margin"] = 2
    /\ summary.total_margin_diff > 0

---------------------------------------------------------------------------
(* fetch-spot-prices.py: the spot price fetch (SpecFetch)                  *)

\* The batch size of a request, scaled down from 10000 records.
BATCH_SIZE == 2

\* The most records the data service holds for the date range.
MaxRecords == 5

\* The record of the data service for the hour h after 2024-01-01T00:00.
Record(h) ==
    [HourUTC |-> Iso(h, "naive"), HourDK |-> Iso(h + 1, "naive"), PriceArea |-> "DK1",
     SpotPriceDKK |-> 400 + 50 * h, SpotPriceEUR |-> 50 + 7 * h]

\* The cache entry made of a record.
PriceOf(r) ==
    [hourUtc |-> r.HourUTC, hourDk |-> r.HourDK, area |-> r.PriceArea,
     spotPriceDkk |-> r.SpotPriceDKK, spotPriceEur |-> r.SpotPriceEUR]

\* The cache before anything is fetched.
NewCache == [area |-> "DK1", fromDate |-> "2024-01-01", toDate |-> "2024-01-02",
             prices |-> <<>>]

\* fetch_batch as the service answers it: the records from the offset on,
\* at most limit of them, sorted by HourUTC, with the total.
fetch_batch(start_offset) ==
    [total |-> Len(remote),
     records |-> SubSeq(remote, start_offset + 1,
                        IF start_offset + BATCH_SIZE < Len(remote)
                        THEN start_offset + BATCH_SIZE ELSE Len(remote))]

RECURSIVE StoreAll(_, _, _)
\* The loop storing every record received, already cached or not.
StoreAll(records, prices, hours) ==
    IF records = <<>> THEN [prices |-> prices, hours |-> hours, added |-> 0]
    ELSE LET rest == StoreAll(Tail(records), Append(prices, PriceOf(Head(records))),
                              hours \cup {Head(records).HourUTC})
         IN  [rest EXCEPT !.added = @ + 1]

RECURSIVE StoreNew(_, _, _)
\* for r in records: append the price of every hour not in existing_hours,
\* adding the hour to the set. The prices, the set and the number added.
StoreNew(records, prices, hours) ==
    IF records = <<>> THEN [prices |-> prices, hours |-> hours, added |-> 0]
    ELSE LET r == Head(records)
         IN  IF r.HourUTC \notin hours
             THEN LET rest == StoreNew(Tail(records), Append(prices, PriceOf(r)),
                                       hours \cup {r.HourUTC})
                  IN  [rest EXCEPT !.added = @ + 1]
             ELSE StoreNew(Tail(records), prices, hours)

\* prices.sort(key=lambda p: p["hourUtc"]): the stable ascending order, every
\* price at the position given by the number of prices that go before it.
SortedByHour(prices) ==
    LET n == Len(prices)
        Before(j, k) ==
            \/ StrLt(prices[j].hourUtc, prices[k].hourUtc)
            \/ prices[j].hourUtc = prices[k].hourUtc /\ j < k
        Placed(pos) == [r \in 1..n |-> prices[CHOOSE k \in 1..n : pos[k] = r]]
    IN  CHOOSE sorted \in
            {Placed(pos) :
                pos \in {[k \in 1..n |-> Cardinality({j \in 1..n : Before(j, k)}) + 1]}} : TRUE

\* The cache with the sorted prices: area, dates, count and statistics set.
WithStats(prices) ==
    LET dkk == {prices[k].spotPriceDkk : k \in 1..Len(prices)}
        base == [area |-> "DK1", fromDate |-> "2024-01-01", toDate |-> "2024-01-02",
                 prices |-> prices, count |-> Len(prices)]
    IN  IF prices = <<>> THEN base
        ELSE base @@ [stats |-> [min |-> CHOOSE x \in dkk : \A y \in dkk : x <= y,
                                 max |-> CHOOSE x \in dkk : \A y \in dkk : x >= y,
                                 first |-> prices[1].hourUtc,
                                 last |-> prices[Len(prices)].hourUtc]]

\* The cache as written: prices sorted by hour, count and statistics set.
Finished(c) ==
    CHOOSE written \in {WithStats(prices) : prices \in {SortedByHour(c.prices)}} : TRUE

\* Lines 46-59: the existing cache file is loaded, the set of its hours built.
LoadCache ==
    /\ pc = "start"
    /\ cache' = IF file # None THEN file ELSE NewCache
    /\ existing_hours' = {cache'.prices[k].hourUtc : k \in 1..Len(cache'.prices)}
    /\ offset' = 0
    /\ new_count' = 0
    /\ total' = None
    /\ pc' = "fetch"
    /\ UNCHANGED <<argIndex, lookups, i, results, printed, summary, call, ret,
                   file, remote, requests>>

\* Lines 64-69: the request raises; after the sleep the loop starts over.
FetchFails ==
    /\ pc = "fetch"
    /\ requests' = requests \cup {[offset |-> offset, ok |-> FALSE]}
    /\ UNCHANGED <<cache, argIndex, lookups, i, results, printed, summary, pc, call, ret,
                   file, remote, existing_hours, offset, new_count, total>>

\* Lines 65, 71-99: a batch is received and stored; the loop ends on an empty
\* or a short batch.
FetchBatch ==
    /\ pc = "fetch"
    /\ LET data == fetch_batch(offset)
           records == data.records
           stored == StoreNew(records, cache.prices, existing_hours)
       IN  /\ requests' = requests \cup {[offset |-> offset, ok |-> TRUE]}
           /\ total' = IF total = None THEN Some(data.total) ELSE total
           /\ IF records = <<>>
              THEN /\ pc' = "finish"
                   /\ UNCHANGED <<cache, existing_hours, new_count, offset>>
              ELSE /\ cache' = [cache EXCEPT !.prices = stored.prices]
                   /\ existing_hours' = stored.hours
                   /\ new_count' = new_count + stored.added
                   /\ offset' = offset + Len(records)
                   /\ pc' = IF Len(records) < BATCH_SIZE THEN "finish" ELSE "fetch"
    /\ UNCHANGED <<argIndex, lookups, i, results, printed, summary, call, ret, file, remote>>

\* Lines 101-123: the prices are sorted and the cache file is written.
WriteCache ==
    /\ pc = "finish"
    /\ \E written \in {Finished(cache)} : cache' = written /\ file' = written
    /\ pc' = "written"
    /\ UNCHANGED <<argIndex, lookups, i, results, printed, summary, call, ret,
                   remote, existing_hours, offset, new_count, total, requests>>

\* The records of the service: the first n hours of the range.
Remote(n) == [k \in 1..n |-> Record(k - 1)]

\* The cache file of an earlier run that stored the hours hs.
CacheFileOf(hs) == Finished([NewCache EXCEPT !.prices = [k \in 1..Len(hs) |-> PriceOf(Record(hs[k]))]])

\* No cache file, or the file of an earlier run over the first hours of the
\* range, or over the last hours of it.
InitFetch ==
    /\ \E n \in 0..MaxRecords :
          /\ remote = Remote(n)
          /\ file \in {None}
                 \cup {CacheFileOf([k \in 1..m |-> k - 1]) : m \in 0..n}
                 \cup {CacheFileOf([k \in 1..m |-> n - m + k - 1]) : m \in 1..n}
    /\ pc = "start"
    /\ cache = None
    /\ existing_hours = {}
    /\ offset = 0
    /\ new_count = 0
    /\ total = None
    /\ requests = {}
    /\ argIndex = None
    /\ lookups = NoLookups
    /\ i = 0
    /\ results = <<>>
    /\ printed = <<>>
    /\ summary = None
    /\ call = [fn |-> "main"]
    /\ ret = None

NextFetch == LoadCache \/ FetchFails \/ FetchBatch \/ WriteCache

SpecFetch == InitFetch /\ [][NextFetch]_vars

\* The hours of the prices of a cache.
HoursOf(c) == IF c = None THEN {} ELSE {c.prices[k].hourUtc : k \in 1..Len(c.prices)}

\* The hours the service was asked for and answered with so far.
ReceivedHours ==
    UNION {{fetch_batch(q.offset).records[k].HourUTC :
              k \in 1..Len(fetch_batch(q.offset).records)} : q \in {q \in requests : q.ok}}

RemoteHours == {remote[k].HourUTC : k \in 1..Len(remote)}

\* C22 (as stated): a run that finds a cache file fetches the missing hours
\* only: until the file is rewritten no hour of the file has been received
\* from the service again, and when the file holds every hour of the range
\* no batch request is issued at all.
C22_OnlyMissingHoursFetched ==
    pc \in {"fetch", "finish"} =>
        /\ ReceivedHours \cap HoursOf(file) = {}
        /\ (RemoteHours # {} /\ RemoteHours \subseteq HoursOf(file)) => requests = {}

---------------------------------------------------------------------------
(* The fetch loop under a service that answers in the end (SpecFetchFair)  *)

\* A request that can succeed is not failed forever, and the steps of the
\* program itself are taken.
SpecFetchFair ==
    SpecFetch /\ WF_vars(LoadCache) /\ WF_vars(FetchBatch) /\ WF_vars(WriteCache)

\* The batches received so far.
Answered == {q \in requests : q.ok}

BatchAt(o) == fetch_batch(o).records

\* Once the loop runs: the hours received are those of the records before
\* the offset, none skipped; the cache holds no hour twice; the loop goes on
\* only while every batch received was full, and has ended only after an
\* empty or short batch, with every record of the service in the cache; the
\* file is written only then.
FetchLoopInvariant ==
    /\ pc \in {"fetch", "finish", "written"} =>
          /\ offset <= Len(remote)
          /\ ReceivedHours = {remote[k].HourUTC : k \in 1..offset}
          /\ Cardinality(HoursOf(cache)) = Len(cache.prices)
          /\ existing_hours = HoursOf(cache)
          /\ \A q \in requests : ~q.ok => q.offset <= offset
    /\ pc = "fetch" =>
          /\ \A q \in Answered : Len(BatchAt(q.offset)) = BATCH_SIZE
          /\ offset = BATCH_SIZE * Cardinality(Answered)
    /\ pc \in {"finish", "written"} =>
          /\ \E q \in Answered : Len(BatchAt(q.offset)) < BATCH_SIZE
          /\ Cardinality({q \in Answered : Len(BatchAt(q.offset)) < BATCH_SIZE}) = 1
          /\ RemoteHours \subseteq HoursOf(cache)
    /\ pc \in {"fetch", "finish"} => HoursOf(file) \subseteq HoursOf(cache)
    /\ pc = "written" => file = cache

\* A step changes the offset only by the size of the batch it received; a
\* failed request leaves the offset, the cache and the position in the loop
\* as they were.
FetchLoopStep ==
    /\ offset' # offset =>
          /\ pc = "fetch"
          /\ [offset |-> offset, ok |-> TRUE] \in requests'
          /\ offset' = offset + Len(BatchAt(offset))
    /\ (\E q \in requests' \ requests : ~q.ok) =>
          /\ offset' = offset
          /\ pc' = pc
          /\ cache' = cache
          /\ file' = file

\* C25: in the fetch loop the offset advances only by the size of a batch
\* received and a failed request is retried at the same offset, so no record
\* range is skipped and no hour is stored twice; the loop ends as soon as a
\* batch is empty or short and the cache is written only then; when no
\* request that can succeed fails forever, the cache is written in the end.
C25_FetchLoopAdvancesAndEnds ==
    /\ []FetchLoopInvariant
    /\ [][FetchLoopStep]_vars
    /\ <>(pc = "written")

\* A finished run that found part of the hours in the cache file, had a
\* request fail at a later offset and the request at that offset answered.
C25_Witness ==
    /\ pc = "written"
    /\ Len(remote) > 2 * BATCH_SIZE
    /\ 0 < new_count /\ new_count < Len(remote)
    /\ \E q \in requests : ~q.ok /\ q.offset > 0 /\ [offset |-> q.offset, ok |-> TRUE] \in requests
    /\ Len(file.prices) = Len(remote)

---------------------------------------------------------------------------
(* Rate resolution over mixed schedules (SpecRate)                         *)

\* The entries of the schedule applicable at the reference instant: a ranged
\* entry from its start up to its end, an open-ended one after its start.
ApplicableAt(rates, ps) ==
    {k \in 1..Len(rates) :
        IF rates[k].endDate # None THEN InRange(rates[k], ps)
        ELSE Instant(rates[k].startDate) < Instant(ps)}

\* C23: margin_rate_at returns the rate of an applicable entry with the
\* greatest start instant among the entries applicable at the reference
\* instant, ranged and open-ended entries mixed, and zero when no entry is
\* applicable.
C23_GreatestApplicableStart ==
    Returned("margin_rate_at") =>
        LET rates == call.product.rates
            app == ApplicableAt(rates, call.period_start)
        IN  IF app = {} THEN ret = 0
            ELSE \E k \in app :
                    /\ \A j \in app : Instant(rates[j].startDate) <= Instant(rates[k].startDate)
                    /\ ret = rates[k].rateDkkPerKwh

---------------------------------------------------------------------------
(* Tier-2 checks one tariff line (SpecTier2)                               *)

\* The lines of s Tier-2 can check: no subscription, hourly detail not empty.
EligibleLines(s) ==
    {j \in 1..Len(s.tariffLines) :
        ~s.tariffLines[j].isSubscription /\ s.tariffLines[j].hourlyDetail # <<>>}

\* C24: Tier-2 checks the hourly detail of exactly one line of the
\* settlement, the first in line order that is no subscription and has
\* hourly detail: the three counts are those of its entries and add up to
\* their number; they are all zero when the settlement has no such line or
\* no observation in its period.
C24_FirstEligibleLineChecked ==
    \A k \in 1..Len(results) :
        LET s == SettlementOf(k)
            r == results[k]
        IN  IF Observed(s) /\ EligibleLines(s) # {}
            THEN LET first == CHOOSE j \in EligibleLines(s) : \A j2 \in EligibleLines(s) : j <= j2
                     hd == s.tariffLines[first].hourlyDetail
                 IN  /\ r.obs_matched + r.obs_mismatched + r.obs_missing = Len(hd)
                     /\ r.obs_matched = Cardinality(MatchedIn(s, hd))
                     /\ r.obs_mismatched = Cardinality(MismatchedIn(s, hd))
                     /\ r.obs_missing = Cardinality(MissingIn(s, hd))
            ELSE r.obs_matched = 0 /\ r.obs_mismatched = 0 /\ r.obs_missing = 0

\* An observed settlement whose second line is checked, a subscription line
\* with detail ahead of it and a longer detail behind it, then an observed
\* settlement with a subscription line only.
C24_Witness ==
    /\ Len(results) = 2
    /\ Observed(SettlementOf(1)) /\ Observed(SettlementOf(2))
    /\ EligibleLines(SettlementOf(1)) = {2, 3}
    /\ SettlementOf(1).tariffLines[1].hourlyDetail # <<>>
    /\ results[1].obs_matched + results[1].obs_mismatched + results[1].obs_missing = 2
    /\ Len(SettlementOf(1).tariffLines[3].hourlyDetail) = 3
    /\ EligibleLines(SettlementOf(2)) = {}
    /\ SettlementOf(2).tariffLines # <<>>
    /\ results[2].obs_matched + results[2].obs_mismatched + results[2].obs_missing = 0

---------------------------------------------------------------------------
(* A product period naming an unknown product (SpecUnknownProduct)         *)

\* The open-ended period of the product from the start of the day.
PeriodFrom(name, day) == [productName |-> name, start |-> Iso(24 * day, "date"), end |-> None]

\* The metering point on "Spot" from 2024-01-01 and on "Fast" from
\* 2024-01-02, the periods given in either order, data["products"] complete
\* or without "Fast".
UnknownProductCaches ==
    {[c EXCEPT !.products = ps, !.productPeriods = pps] :
        c \in AttachedCaches,
        ps \in ProductLists,
        pps \in {<<PeriodFrom("Spot", 0), PeriodFrom("Fast", 1)>>,
                 <<PeriodFrom("Fast", 1), PeriodFrom("Spot", 0)>>}}

\* Settlements of 4.5 kWh observed on 2024-01-02, the margin amount that of
\* "Spot" (0.09) or 2.00, and one on 2024-01-04 without observations.
UnknownProductSettlements ==
    {SettlementWith(1, 4500, 90, <<EnergyLine(450, 0)>>),
     SettlementWith(1, 4500, 2000, <<EnergyLine(450, 0)>>),
     SettlementWith(3, 4500, 2000, <<EnergyLine(450, 0)>>)}

InitUnknownProduct == InitWith(UnknownProductCaches, UnknownProductSettlements)

SpecUnknownProduct == InitUnknownProduct /\ [][Next]_vars

\* The product periods active at the start of s and not named as an addon.
ActivePrimaryPeriods(s) ==
    {j \in 1..Len(cache.productPeriods) :
        /\ Active(cache.productPeriods[j], s.periodStart)
        /\ cache.productPeriods[j].productName \notin addon_names}

\* The latest-starting active non-addon period of s names a product that
\* data["products"] does not hold.
LatestNamesUnknown(s) ==
    \E j \in ActivePrimaryPeriods(s) :
        /\ \A j2 \in ActivePrimaryPeriods(s) \ {j} :
              Instant(cache.productPeriods[j2].start) < Instant(cache.productPeriods[j].start)
        /\ ProductNamed(cache.products, cache.productPeriods[j].productName) = None

\* C26: when the latest-starting active non-addon period names a product
\* the product index does not hold, the settlement has no primary product,
\* an earlier active period notwithstanding: no margin and no spot cost is
\* recomputed, no margin issue is raised, and with observations and no other
\* issue it is reported as passed.
C26_UnknownPrimaryNoFallback ==
    \A k \in 1..Len(results) :
        LatestNamesUnknown(SettlementOf(k)) =>
            /\ results[k].prod = "?"
            /\ results[k].model = "Unknown"
            /\ results[k].recalc_margin = None
            /\ results[k].margin_diff = None
            /\ results[k].recalc_spot = None
            /\ "margin" \notin IssueSet(results[k])
            /\ (Observed(SettlementOf(k)) /\ IssueSet(results[k]) \subseteq {"margin"})
                  => printed[k].icon = "passed"

\* An observed settlement with a margin amount of 2.00, the metering point
\* on "Spot" and later on the unknown "Fast", reported as passed.
C26_Witness ==
    \E k \in 1..Len(results) :
        /\ LatestNamesUnknown(SettlementOf(k))
        /\ Cardinality(ActivePrimaryPeriods(SettlementOf(k))) = 2
        /\ \E j \in ActivePrimaryPeriods(SettlementOf(k)) :
              ProductNamed(cache.products, cache.productPeriods[j].productName) = Some(SpotProduct)
        /\ Observed(SettlementOf(k))
        /\ SettlementOf(k).marginAmountDkk = 2000
        /\ results[k].margin_diff = None
        /\ printed[k].icon = "passed"

=============================================================================
